---- MODULE Spec2Model ----
(***************************************************************************)
(* starlette-wtf: the CSRF token engine (starlette_wtf/util.py) and the    *)
(* csrf_protect gate (starlette_wtf/csrf.py) as a state machine.           *)
(*                                                                         *)
(* Time is the signer's clock, int(time.time()): whole seconds.  A signed  *)
(* token is what URLSafeTimedSerializer.dumps produces: the payload, the   *)
(* second it was signed in and a signature that only the signing key       *)
(* reproduces; the same payload signed with the same key in the same       *)
(* second is the same string.  os.urandom is modelled as a source of fresh *)
(* values: every SessionToken it produces is new.                          *)
(***************************************************************************)
EXTENDS Integers, Sequences, FiniteSets, TLC

VARIABLES now, session, nextTok, saved, config, pc, req, state, first, ret,
          formObj

vars ==
    <<now, session, nextTok, saved, config, pc, req, state, first, ret,
      formObj>>

(* ------------------------------ bounds -------------------------------- *)

MaxTime == 1

MaxTok == 2

Sessions == {"A", "B"}

Secrets == {"K1", "K2"}

(* ------------------------- program constants -------------------------- *)

SUBMIT_METHODS == {"POST", "PUT", "PATCH", "DELETE"}

Methods == SUBMIT_METHODS \cup {"GET", "HEAD"}

DEFAULT_CSRF_HEADERS == <<"X-CSRFToken", "X-CSRF-Token">>

DEFAULT_ENABLED == TRUE

DEFAULT_CSRF_FIELD_NAME == "csrf_token"

\* the names under which the form classes declare fields
DeclaredNames == {"field1", "field2"}

\* a field without submitted value: its data is None or ''
NoData == ""

TOKEN_MISSING == "The CSRF token is missing."

SESSION_MISSING == "The CSRF session token is missing."

TOKEN_EXPIRED == "The CSRF token has expired."

TOKEN_INVALID == "The CSRF token is invalid."

TOKEN_MISMATCH == "The CSRF tokens do not match."

REFERRER_MISSING == "The referrer header is missing."

REFERRER_MISMATCH == "The referrer does not match the host."

\* validate_csrf returning normally (None)
OK == "ok"

\* `field_name not in session`: the session holds nothing under the field name
NoToken == 0

\* values an endpoint can have put in the session under the field name that
\* are no SessionToken of the library: the int 1, which JSON takes, and a
\* bytes value, which json.dumps refuses with TypeError.  The SessionTokens
\* (hex strings) are the numbers 1..MaxTok.
IntValue == -1

BytesValue == -2

ForeignValues == {IntValue, BytesValue}

\* an exception of validate_csrf that is no ValidationError
TYPE_ERROR == "TypeError"

\* time_limit=None: no maximum age; Limit(n) is time_limit=n
NoLimit == {}

Limit(n) == {n}

TimeLimits == {NoLimit, Limit(-1), Limit(0), Limit(1)}

(* ------------------------ values on the wire -------------------------- *)

\* a value submitted as the token: None, '', a string that is no signed
\* token ('badtoken'), or a signed token
Cand(kind, payload, ts, key) ==
    [kind |-> kind, payload |-> payload, ts |-> ts, key |-> key]

NoneTok == Cand("none", 0, 0, "-")

EmptyTok == Cand("empty", 0, 0, "-")

BadTok == Cand("bad", 0, 0, "-")

\* `not data` / `if base_token:` : None and '' are falsy
Truthy(data) == data.kind \notin {"none", "empty"}

\* A mapping of submitted data (an ImmutableMultiDict or FormData): the
\* value under 'csrf_token' (NoneTok: no such key) and the values under
\* prefix + name for the declared names (NoData: no such key, or '').
FormData(token, prefix, values) ==
    [none |-> FALSE, token |-> token, prefix |-> prefix, values |-> values]

NoValues == [n \in DeclaredNames |-> NoData]

\* the mapping without keys
EmptyFormData == FormData(NoneTok, "", NoValues)

\* None where a mapping can stand
NoFormData ==
    [none |-> TRUE, token |-> NoneTok, prefix |-> "", values |-> NoValues]

\* the Content-Type header of a request ("None": the request has none)
JSON_TYPE == "application/json"

JSON_CHARSET_TYPE == "application/json; charset=utf-8"

URLENCODED_TYPE == "application/x-www-form-urlencoded"

MULTIPART_TYPE == "multipart/form-data; boundary=b"

NoContentType == "None"

\* the media type a Content-Type header names, its parameters left out
MediaType(ctype) ==
    CASE ctype = JSON_CHARSET_TYPE -> "application/json"
      [] ctype = MULTIPART_TYPE -> "multipart/form-data"
      [] OTHER -> ctype

\* a request body: how it is encoded ("json", "urlencoded", "multipart";
\* "none": the request has no body) and the mapping it encodes
Body(enc, map) == [enc |-> enc, map |-> map]

NoBody == Body("none", EmptyFormData)

\* await request.json(), of a body that is a JSON object
request_json(body) == CASE body.enc = "json" -> body.map

\* await request.form(): starlette parses the body as the media type of the
\* Content-Type header tells, and gives an empty FormData for a media
\* type that is neither multipart/form-data nor urlencoded
request_form(ctype, body) ==
    IF MediaType(ctype) = "multipart/form-data" /\ body.enc = "multipart"
    THEN body.map
    ELSE IF MediaType(ctype) = URLENCODED_TYPE /\ body.enc = "urlencoded"
    THEN body.map
    ELSE EmptyFormData

\* The values a secret can take.  A str is written as its text, the bytes
\* b'...' as "bytes:" followed by the text, None as "<None>".
NoneSecret == "<None>"

EmptySecret == ""

StrValues == Secrets \cup {EmptySecret, "None"}

\* str.encode('utf-8')
encode(s) == "bytes:" \o s

\* repr of the bytes b'...' whose text is s, as str(bytes) gives it
repr_bytes(s) == "b'" \o s \o "'"

BytesValues ==
    {encode(s) : s \in StrValues \cup {repr_bytes(v) : v \in StrValues}}

\* starlette.datastructures.Secret(value): the opaque wrapper of a str
Secret(value) == "Secret:" \o value

SecretValues == {Secret(s) : s \in StrValues}

\* isinstance(x, Secret)
IsSecret(x) == x \in SecretValues

\* str(x) of None, of a Secret (the wrapped value), of bytes (their repr)
\* or of a str
str(x) ==
    IF x = NoneSecret THEN "None"
    ELSE IF IsSecret(x) THEN CHOOSE v \in StrValues : Secret(v) = x
    ELSE IF \E v \in StrValues : encode(v) = x
    THEN repr_bytes(CHOOSE v \in StrValues : encode(v) = x)
    ELSE x

\* `not csrf_secret`: None and '' are falsy
Falsy(secret) == secret \in {NoneSecret, EmptySecret}

\* itsdangerous want_bytes, applied by the serializer to its secret key: a
\* str is encoded, bytes are taken as they are
want_bytes(k) == IF k \in BytesValues THEN k ELSE encode(k)

\* json.dumps accepts the value (every SessionToken the library stores is a
\* hex string)
Serializable(obj) == obj # BytesValue

\* isinstance(obj, str): the SessionTokens of the library
IsStr(obj) == obj \in Nat \ {NoToken}

\* URLSafeTimedSerializer(secret_key, salt='wtf-csrf-token').dumps(obj) at
\* second t; "TypeError" when obj cannot be serialised
dumps(secret_key, obj, t) ==
    IF Serializable(obj)
    THEN [err |-> "none",
          token |-> Cand("signed", obj, t, want_bytes(secret_key))]
    ELSE [err |-> "TypeError", token |-> NoneTok]

loads_ExpiryFirst(secret_key, data, max_age, t) ==
    IF data.kind # "signed"
    THEN [err |-> "BadData", payload |-> 0]
    ELSE IF max_age # NoLimit /\ (\E v \in max_age : t - data.ts > v)
    THEN [err |-> "SignatureExpired", payload |-> data.payload]
    ELSE IF data.key # want_bytes(secret_key)
    THEN [err |-> "BadData", payload |-> 0]
    ELSE [err |-> "none", payload |-> data.payload]

loads_AgeInclusive(secret_key, data, max_age, t) ==
    IF data.kind # "signed" \/ data.key # want_bytes(secret_key)
    THEN [err |-> "BadData", payload |-> 0]
    ELSE IF max_age # NoLimit /\ (\E v \in max_age : t - data.ts >= v)
    THEN [err |-> "SignatureExpired", payload |-> data.payload]
    ELSE [err |-> "none", payload |-> data.payload]

\* URLSafeTimedSerializer(secret_key, salt='wtf-csrf-token')
\*     .loads(data, max_age=time_limit) at second t: the signature is
\* verified first (BadData), then the age (SignatureExpired: age > max_age)
loads(secret_key, data, max_age, t) ==
    IF data.kind # "signed" \/ data.key # want_bytes(secret_key)
    THEN [err |-> "BadData", payload |-> 0]
    ELSE IF max_age # NoLimit /\ (\E v \in max_age : t - data.ts > v)
    THEN [err |-> "SignatureExpired", payload |-> data.payload]
    ELSE [err |-> "none", payload |-> data.payload]

\* hmac.compare_digest(a, b) on two strings
compare_digest(a, b) == a = b

\* hmac.compare_digest(a, b) raises TypeError unless both are str (or both
\* bytes-like, which a loaded JSON payload never is)
compare_digest_raises(a, b) == ~IsStr(a) \/ ~IsStr(b)

(* ----------------------------- util.py -------------------------------- *)

get_formdata_FormOnly(ctype, body) == request_form(ctype, body)

\* get_formdata(request)
get_formdata(ctype, body) ==
    IF ctype = JSON_TYPE
    THEN request_json(body)
    ELSE request_form(ctype, body)

HandleSecret_Skip(secret_key) == secret_key

\* `if isinstance(secret_key, Secret): secret_key = str(secret_key)`
HandleSecret(secret_key) ==
    IF IsSecret(secret_key) THEN str(secret_key) ELSE secret_key

generate_csrf_Rotate(sessVal, cached, secret_key, t, fresh) ==
    IF cached.kind # "none"
    THEN [session |-> sessVal, state |-> cached, val |-> cached,
          cached |-> TRUE]
    ELSE LET token == dumps(HandleSecret(secret_key), fresh, t).token
         IN  [session |-> fresh, state |-> token, val |-> token,
              cached |-> FALSE]

generate_csrf_NoRetry(sessVal, cached, secret_key, t, fresh) ==
    IF cached.kind # "none"
    THEN [session |-> sessVal, state |-> cached, val |-> cached,
          cached |-> TRUE]
    ELSE LET sv    == IF sessVal = NoToken THEN fresh ELSE sessVal
             token == dumps(HandleSecret(secret_key), sv, t).token
         IN  [session |-> sv, state |-> token, val |-> token,
              cached |-> FALSE]

generate_csrf_NoCache(sessVal, cached, secret_key, t, fresh) ==
    LET sv    == IF sessVal = NoToken THEN fresh ELSE sessVal
        token == dumps(HandleSecret(secret_key), sv, t).token
    IN  [session |-> sv, state |-> token, val |-> token, cached |-> FALSE]

generate_csrf_NoStore(sessVal, cached, secret_key, t, fresh) ==
    IF cached.kind # "none"
    THEN [session |-> sessVal, state |-> cached, val |-> cached,
          cached |-> TRUE]
    ELSE LET sv    == IF sessVal = NoToken THEN fresh ELSE sessVal
             token == dumps(HandleSecret(secret_key), sv, t).token
         IN  [session |-> sessVal, state |-> token, val |-> token,
              cached |-> FALSE]

generate_csrf_StaleStamp(sessVal, cached, secret_key, t, fresh) ==
    IF cached.kind # "none"
    THEN [session |-> sessVal, state |-> cached, val |-> cached,
          cached |-> TRUE]
    ELSE LET sv    == IF sessVal = NoToken THEN fresh ELSE sessVal
             token == dumps(HandleSecret(secret_key), sv, 0).token
         IN  [session |-> sv, state |-> token, val |-> token,
              cached |-> FALSE]

\* generate_csrf(request, secret_key, field_name) at second t.
\*   sessVal: request.session's value under field_name (NoToken: absent)
\*   cached:  request.state's attribute field_name (NoneTok: no attribute)
\*   fresh:   hashlib.sha1(os.urandom(64)).hexdigest()
\* Returns the session value and the state attribute it leaves, the value
\* it returns, and whether it answered from the per-request cache.
generate_csrf(sessVal, cached, secret_key, t, fresh) ==
    IF cached.kind # "none"
    THEN [session |-> sessVal, state |-> cached, val |-> cached,
          cached |-> TRUE]
    ELSE LET sv0 == IF sessVal = NoToken THEN fresh ELSE sessVal
             d0  == dumps(HandleSecret(secret_key), sv0, t)
             sv  == IF d0.err = "TypeError" THEN fresh ELSE sv0
             token == IF d0.err = "TypeError"
                      THEN dumps(HandleSecret(secret_key), sv, t).token
                      ELSE d0.token
         IN  [session |-> sv, state |-> token, val |-> token,
              cached |-> FALSE]

validate_csrf_SessionFirst(sessVal, data, secret_key, time_limit, t) ==
    IF sessVal = NoToken THEN SESSION_MISSING
    ELSE IF ~Truthy(data) THEN TOKEN_MISSING
    ELSE LET r == loads(HandleSecret(secret_key), data, time_limit, t)
         IN  IF r.err = "SignatureExpired" THEN TOKEN_EXPIRED
             ELSE IF r.err = "BadData" THEN TOKEN_INVALID
             ELSE IF compare_digest_raises(sessVal, r.payload) THEN TYPE_ERROR
             ELSE IF ~compare_digest(sessVal, r.payload) THEN TOKEN_MISMATCH
             ELSE OK

validate_csrf_NoCompare(sessVal, data, secret_key, time_limit, t) ==
    IF ~Truthy(data) THEN TOKEN_MISSING
    ELSE IF sessVal = NoToken THEN SESSION_MISSING
    ELSE LET r == loads(HandleSecret(secret_key), data, time_limit, t)
         IN  IF r.err = "SignatureExpired" THEN TOKEN_EXPIRED
             ELSE IF r.err = "BadData" THEN TOKEN_INVALID
             ELSE OK

validate_csrf_session_Consume(sessVal, out) ==
    IF out = OK THEN NoToken ELSE sessVal

\* the session's value under field_name when validate_csrf is over with
\* outcome `out`: validate_csrf reads request.session and writes nothing
validate_csrf_session(sessVal, out) == sessVal

\* validate_csrf(request, data, secret_key, field_name, time_limit) at
\* second t: OK when it returns, else the ValidationError's message
validate_csrf(sessVal, data, secret_key, time_limit, t) ==
    IF ~Truthy(data) THEN TOKEN_MISSING
    ELSE IF sessVal = NoToken THEN SESSION_MISSING
    ELSE LET r == loads(HandleSecret(secret_key), data, time_limit, t)
         IN  IF r.err = "SignatureExpired" THEN TOKEN_EXPIRED
             ELSE IF r.err = "BadData" THEN TOKEN_INVALID
             ELSE IF compare_digest_raises(sessVal, r.payload) THEN TYPE_ERROR
             ELSE IF ~compare_digest(sessVal, r.payload) THEN TOKEN_MISMATCH
             ELSE OK

(* ----------------------------- csrf.py -------------------------------- *)

\* an HTTP header name as the ASGI scope carries it, and as
\* starlette's Headers.get compares it: lower case
Lower(name) ==
    CASE name = "X-CSRFToken" -> "x-csrftoken"
      [] name = "X-CSRF-Token" -> "x-csrf-token"
      [] name = "REFERER" -> "referer"
      [] OTHER -> name

headers_get_CaseSensitive(headers, key) ==
    IF \E h \in headers : h.name = key
    THEN (CHOOSE h \in headers : h.name = key).value
    ELSE NoneTok

\* request.headers.get(key): the value of the header of that name, compared
\* case-insensitively; None when there is none
headers_get(headers, key) ==
    IF \E h \in headers : Lower(h.name) = Lower(key)
    THEN (CHOOSE h \in headers : Lower(h.name) = Lower(key)).value
    ELSE NoneTok

\* the loop of get_csrf_token over csrf_config['csrf_headers'], from the
\* i-th name on
RECURSIVE ScanHeaders(_, _, _)
ScanHeaders(headers, names, i) ==
    IF i > Len(names) THEN NoneTok
    ELSE LET csrf_token == headers_get(headers, names[i])
         IN  IF Truthy(csrf_token) THEN csrf_token
             ELSE ScanHeaders(headers, names, i + 1)

get_csrf_token_HeadersFirst(r, cfg) ==
    LET h == ScanHeaders(r.headers, cfg.csrf_headers, 1)
        base_token == get_formdata(r.ctype, r.body).token
    IN  IF Truthy(h) THEN h
        ELSE IF Truthy(base_token) THEN base_token ELSE NoneTok

\* get_csrf_token(request): r.ctype and r.body are the request's
\* Content-Type and body, r.headers its other headers
get_csrf_token(r, cfg) ==
    LET formdata == get_formdata(r.ctype, r.body)
        base_token == formdata.token
    IN  IF Truthy(base_token) THEN base_token
        ELSE ScanHeaders(r.headers, cfg.csrf_headers, 1)

\* a URL as request.url and urlparse(referrer) give it: its scheme,
\* hostname and port ("None": the URL names no port)
Url(scheme, hostname, port) ==
    [present |-> TRUE, empty |-> FALSE, scheme |-> scheme,
     hostname |-> hostname, port |-> port]

\* no REFERER header (request.headers.get('REFERER') is None)
NoReferer ==
    [present |-> FALSE, empty |-> FALSE, scheme |-> "-", hostname |-> "-",
     port |-> "-"]

\* a REFERER header with the empty string as its value, and urlparse('')
EmptyReferer ==
    [present |-> TRUE, empty |-> TRUE, scheme |-> "", hostname |-> "None",
     port |-> "None"]

\* `not referrer`: None and '' are falsy
NoReferrer(referrer) == ~referrer.present \/ referrer.empty

same_origin_NoPort(url1, url2) ==
    /\ url1.scheme = url2.scheme
    /\ url1.hostname = url2.hostname

same_origin(url1, url2) ==
    /\ url1.scheme = url2.scheme
    /\ url1.hostname = url2.hostname
    /\ url1.port = url2.port

\* CSRFError(detail): an HTTPException with status_code 403
CSRFError(detail) == [raised |-> TRUE, status_code |-> 403, detail |-> detail]

NoExc == [raised |-> FALSE, status_code |-> 0, detail |-> "-"]

\* an exception that endpoint_wrapper does not catch: the server answers 500
Uncaught(name) == [raised |-> TRUE, status_code |-> 500, detail |-> name]

\* what one pass through endpoint_wrapper did: whether func was awaited,
\* the exception raised, whether request.state.csrf_valid was set, whether
\* get_csrf_token and validate_csrf were called, and the token extracted
GateResult(invoked, exc, csrf_valid, extracted, validated, data) ==
    [invoked |-> invoked, exc |-> exc, csrf_valid |-> csrf_valid,
     extracted |-> extracted, validated |-> validated, data |-> data]

csrf_protect_IgnoreFailure(r, method, sessVal, cfg, t) ==
    IF method \notin SUBMIT_METHODS
    THEN GateResult(TRUE, NoExc, FALSE, FALSE, FALSE, NoneTok)
    ELSE LET signed_token == get_csrf_token(r, cfg)
             v == validate_csrf(sessVal, signed_token, cfg.csrf_secret,
                                cfg.csrf_time_limit, t)
         IN  IF v \notin {OK, TOKEN_MISMATCH}
             THEN GateResult(FALSE, CSRFError(v), FALSE, TRUE, TRUE,
                             signed_token)
             ELSE GateResult(TRUE, NoExc, TRUE, TRUE, TRUE, signed_token)

csrf_protect_AlwaysValidate(r, method, sessVal, cfg, t) ==
    LET signed_token == get_csrf_token(r, cfg)
        v == validate_csrf(sessVal, signed_token, cfg.csrf_secret,
                           cfg.csrf_time_limit, t)
    IN  IF v # OK
        THEN GateResult(FALSE, CSRFError(v), FALSE, TRUE, TRUE, signed_token)
        ELSE GateResult(TRUE, NoExc, TRUE, TRUE, TRUE, signed_token)

csrf_protect_NoMark(r, method, sessVal, cfg, t) ==
    IF method \notin SUBMIT_METHODS
    THEN GateResult(TRUE, NoExc, FALSE, FALSE, FALSE, NoneTok)
    ELSE LET signed_token == get_csrf_token(r, cfg)
             v == validate_csrf(sessVal, signed_token, cfg.csrf_secret,
                                cfg.csrf_time_limit, t)
         IN  IF v # OK
             THEN GateResult(FALSE, CSRFError(v), FALSE, TRUE, TRUE,
                             signed_token)
             ELSE IF r.url.scheme = "https" /\ cfg.csrf_ssl_strict
                     /\ NoReferrer(r.referer)
             THEN GateResult(FALSE, CSRFError(REFERRER_MISSING), FALSE,
                             TRUE, TRUE, signed_token)
             ELSE IF r.url.scheme = "https" /\ cfg.csrf_ssl_strict
                     /\ ~same_origin(r.referer, r.url)
             THEN GateResult(FALSE, CSRFError(REFERRER_MISMATCH), FALSE,
                             TRUE, TRUE, signed_token)
             ELSE GateResult(TRUE, NoExc, FALSE, TRUE, TRUE, signed_token)

\* csrf_protect(func).endpoint_wrapper(request) at second t, for a request
\* r of the given method whose session holds sessVal under the field name
csrf_protect(r, method, sessVal, cfg, t) ==
    IF method \notin SUBMIT_METHODS
    THEN GateResult(TRUE, NoExc, FALSE, FALSE, FALSE, NoneTok)
    ELSE LET signed_token == get_csrf_token(r, cfg)
             v == validate_csrf(sessVal, signed_token, cfg.csrf_secret,
                                cfg.csrf_time_limit, t)
         IN  IF v = TYPE_ERROR
             THEN GateResult(FALSE, Uncaught(v), FALSE, TRUE, TRUE,
                             signed_token)
             ELSE IF v # OK
             THEN GateResult(FALSE, CSRFError(v), FALSE, TRUE, TRUE,
                             signed_token)
             ELSE IF r.url.scheme = "https" /\ cfg.csrf_ssl_strict
             THEN IF NoReferrer(r.referer)
                  THEN GateResult(FALSE, CSRFError(REFERRER_MISSING), FALSE,
                                  TRUE, TRUE, signed_token)
                  ELSE IF ~same_origin(r.referer, r.url)
                  THEN GateResult(FALSE, CSRFError(REFERRER_MISMATCH), FALSE,
                                  TRUE, TRUE, signed_token)
                  ELSE GateResult(TRUE, NoExc, TRUE, TRUE, TRUE,
                                  signed_token)
             ELSE GateResult(TRUE, NoExc, TRUE, TRUE, TRUE, signed_token)

(* ------------------------------ state --------------------------------- *)

\* CSRFProtectMiddleware.csrf_config of a middleware constructed with
\* enabled left at its default (csrf_field_name is 'csrf_token')
Config(secret, time_limit, ssl_strict) ==
    [enabled |-> DEFAULT_ENABLED, csrf_secret |-> secret,
     csrf_class |-> "_StarletteFormCSRF",
     csrf_field_name |-> DEFAULT_CSRF_FIELD_NAME,
     csrf_time_limit |-> time_limit,
     csrf_headers |-> DEFAULT_CSRF_HEADERS, csrf_ssl_strict |-> ssl_strict]

\* the same of a middleware constructed with csrf_field_name=field_name
ConfigNamed(secret, time_limit, ssl_strict, field_name) ==
    [Config(secret, time_limit, ssl_strict)
       EXCEPT !.csrf_field_name = field_name]

\* no csrf_config on request.state: the application has no
\* CSRFProtectMiddleware (or it has not been constructed)
NoConfig ==
    [enabled |-> FALSE, csrf_secret |-> NoneSecret, csrf_class |-> "-",
     csrf_field_name |-> DEFAULT_CSRF_FIELD_NAME,
     csrf_time_limit |-> NoLimit, csrf_headers |-> <<>>,
     csrf_ssl_strict |-> FALSE]

\* the RuntimeError's message (the source writes csrf_secret between
\* backquotes)
REQUIRED_SECRET == "csrf_secret is required"

CSRFProtectMiddleware_NoCheck(enabled, csrf_secret, time_limit, ssl_strict) ==
    [err |-> "none", msg |-> "-",
     csrf_config |->
        [Config(csrf_secret, time_limit, ssl_strict)
           EXCEPT !.enabled = enabled]]

\* CSRFProtectMiddleware.__init__: the RuntimeError it raises, or the
\* csrf_config it leaves
CSRFProtectMiddleware(enabled, csrf_secret, time_limit, ssl_strict) ==
    IF enabled /\ Falsy(csrf_secret)
    THEN [err |-> "RuntimeError", msg |-> REQUIRED_SECRET,
          csrf_config |-> NoConfig]
    ELSE [err |-> "none", msg |-> "-",
          csrf_config |->
             [Config(csrf_secret, time_limit, ssl_strict)
                EXCEPT !.enabled = enabled]]

(* ----------------------------- form.py -------------------------------- *)

FIELD_REQUIRED == "This field is required."

FIELD_INCORRECT == "Field value is incorrect."

\* the message of a validator the caller passes in extra_validators
FIELD_EXTRA == "Extra validator failed."

FieldNames == DeclaredNames \cup {DEFAULT_CSRF_FIELD_NAME}

\* the value the validators of the test forms accept for a field
Expected(name) == IF name = "field1" THEN "value1" ELSE "value2"

FieldValues(name) == {NoData, Expected(name), "xxx"}

\* a form class: its declared fields in order, the fields declared with
\* DataRequired, and what the inline validate_<name> and the
\* async_validate_<name> of each field do.  A synchronous validator is
\* "none" (there is none), "check" (it raises ValidationError unless the
\* data is the expected value) or "stop" (it raises StopValidation
\* instead); an async validator is "none", "check", or "raise" (it raises
\* Exception('test')).
FormClass(fields, required, inline, async) ==
    [fields |-> fields, required |-> required, inline |-> inline,
     async |-> async]

NoAsync == [n \in DeclaredNames |-> "none"]

NoInline == [n \in DeclaredNames |-> "none"]

\* extra_validators=None
NoExtra == [n \in DeclaredNames |-> "none"]

\* The extra_validators mapping as the caller holds it: for each declared
\* name whether the mapping has the key, and the list under it.  An extra
\* validator of kind k for a name is the mapping's entry name: [k].
CallerMapping(extra) ==
    [n \in DeclaredNames |->
       IF extra[n] = "none" THEN [has |-> FALSE, list |-> <<>>]
       ELSE [has |-> TRUE, list |-> <<extra[n]>>]]

\* StarletteForm itself: no declared field
StarletteForm == FormClass(<<>>, {}, NoInline, NoAsync)

FormWithCustomValidators ==
    FormClass(<<"field1", "field2">>, {},
              [n \in DeclaredNames |-> "check"], NoAsync)

FormWithAsyncValidators ==
    FormClass(<<"field1", "field2">>, {"field2"}, NoInline,
              [n \in DeclaredNames |-> "check"])

FormWithAsyncException ==
    FormClass(<<"field1">>, {}, NoInline,
              [NoAsync EXCEPT !["field1"] = "raise"])

\* Field.name of the field declared as `name` in a form constructed with
\* the prefix; the form keeps its fields under the declared names
FieldName(prefix, name) == prefix \o name

\* the formdata argument left at its default, the sentinel _Auto
Auto ==
    [none |-> TRUE, token |-> NoneTok, prefix |-> "_Auto",
     values |-> NoValues]

from_formdata_MethodOnly(method, ctype, body, formdata) ==
    IF method \in SUBMIT_METHODS
    THEN [formdata |-> get_formdata(ctype, body), read |-> TRUE]
    ELSE [formdata |-> NoFormData, read |-> FALSE]

\* from_formdata(request, formdata): the formdata it hands to the
\* constructor, and whether it read the request's submitted data
from_formdata(method, ctype, body, formdata) ==
    IF formdata = Auto
    THEN IF method \in SUBMIT_METHODS
         THEN [formdata |-> get_formdata(ctype, body), read |-> TRUE]
         ELSE [formdata |-> NoFormData, read |-> FALSE]
    ELSE [formdata |-> formdata, read |-> FALSE]

\* the data a declared field takes when the form is constructed: its value
\* in formdata under prefix + name, else its default (None)
FieldData(formdata, prefix, name) ==
    IF formdata.none \/ formdata.prefix # prefix THEN NoData
    ELSE formdata.values[name]

\* the data of the csrf_token field
TokenData(formdata) == IF formdata.none THEN NoneTok ELSE formdata.token

MetaSecret_Fixed(cfg) == encode("None")

\* the csrf_secret StarletteForm.__init__ puts into the form's meta
MetaSecret(cfg) == encode(str(cfg.csrf_secret))

MetaCsrf_Always(cfg) == TRUE

\* the form has a csrf_token field: request.state has a csrf_config and
\* its 'enabled' is true
MetaCsrf(cfg) == cfg # NoConfig /\ cfg.enabled

validate_csrf_token_NoSkip(csrf_valid, sessVal, data, cfg, t) ==
    [out |-> validate_csrf(sessVal, data, MetaSecret(cfg),
                           cfg.csrf_time_limit, t),
     called |-> TRUE]

\* _StarletteFormCSRF.validate_csrf_token: OK when it returns, else the
\* ValidationError's message; `called` tells whether it called validate_csrf
validate_csrf_token(csrf_valid, sessVal, data, cfg, t) ==
    IF csrf_valid
    THEN [out |-> OK, called |-> FALSE]
    ELSE [out |-> validate_csrf(sessVal, data, MetaSecret(cfg),
                                cfg.csrf_time_limit, t),
          called |-> TRUE]

\* one synchronous validator of the given kind run on a field: the errors
\* it adds and whether it stops the chain
RunValidator(kind, name, data, message) ==
    IF kind = "none" \/ data = Expected(name)
    THEN [errors |-> <<>>, stop |-> FALSE]
    ELSE [errors |-> <<message>>, stop |-> kind = "stop"]

\* the synchronous validation of one declared field (Field.validate run by
\* super().validate with the extra validators).  The chain is: the declared
\* validators (DataRequired stops the chain with its message when the field
\* has no data), the caller's extra validator, record_status where the
\* class has an async validator for the field, and last the inline
\* validate_<name>.  `recorded` tells whether record_status was reached.
SyncField(cls, extra, name, data) ==
    LET e == RunValidator(extra[name], name, data, FIELD_EXTRA)
        i == RunValidator(cls.inline[name], name, data, FIELD_INCORRECT)
    IN  IF name \in cls.required /\ data = NoData
        THEN [errors |-> <<FIELD_REQUIRED>>, stopped |-> TRUE,
              recorded |-> FALSE]
        ELSE IF e.stop
        THEN [errors |-> e.errors, stopped |-> TRUE, recorded |-> FALSE]
        ELSE [errors |-> e.errors \o i.errors, stopped |-> i.stop,
              recorded |-> cls.async[name] # "none"]

\* async_validators: the declared names with an async_validate_<name>
async_validators(cls) ==
    {cls.fields[i] : i \in {j \in 1..Len(cls.fields) :
                               cls.async[cls.fields[j]] # "none"}}

\* record_status(form, field): completed.append(field.name)
record_status(done, prefix, name) == Append(done, FieldName(prefix, name))

\* The caller's mapping when validate has built its own `extra` and
\* super().validate has added the inline validators: `extra` is
\* extra_validators.copy(), a copy of the mapping whose lists are the
\* caller's own, so extra.setdefault(name, []).append(...) appends to the
\* caller's list where the mapping has the key, and adds a key to the copy
\* alone where it has none.
extra_after(mapping, cls) ==
    [n \in DeclaredNames |->
       IF mapping[n].has
       THEN [mapping[n] EXCEPT
               !.list = @ \o (IF cls.async[n] # "none"
                              THEN <<"record_status">> ELSE <<>>)
                          \o (IF cls.inline[n] # "none"
                              THEN <<"validate_" \o n>> ELSE <<>>)]
       ELSE mapping[n]]

\* _validate_async(validator, field) once the validator has ended: it
\* returns True ("ok"), or appends the ValidationError's message to the
\* field's errors and returns False ("invalid"), or lets another exception
\* through ("fatal")
validate_async(kind, valid) ==
    IF kind = "raise" THEN [status |-> "fatal", errors |-> <<>>]
    ELSE IF valid THEN [status |-> "ok", errors |-> <<>>]
    ELSE [status |-> "invalid", errors |-> <<FIELD_INCORRECT>>]

ErrorField_First(name, order) == IF order = <<>> THEN name ELSE order[1]

\* the field whose errors the task of field `name` appends to, `order`
\* being the fields whose tasks ended before: field.errors of its own field
ErrorField(name, order) == name

gather_ready_AllOk(task, launched, fatal) ==
    \A n \in launched : task[n] \in {"ok", "invalid"}

gather_ready_Any(task, launched, fatal) ==
    \E n \in launched : task[n] \in {"ok", "invalid", "fatal"}

\* asyncio.gather(*tasks) wakes validate up: every task has run its first
\* step, and a task has let an exception through or all tasks have ended
gather_ready(task, launched, fatal) ==
    /\ \A n \in launched : task[n] # "pending"
    /\ \/ fatal # "-"
       \/ \A n \in launched : task[n] \in {"ok", "invalid"}

gather_ReturnExceptions(task, launched, fatal) ==
    [exc |-> "-", results |-> {task[n] = "ok" : n \in launched}]

\* asyncio.gather(*tasks) when it wakes validate up: it raises the first
\* exception a task let through, else it gives the tasks' results
gather(task, launched, fatal) ==
    IF fatal # "-"
    THEN [exc |-> "Exception", results |-> {}]
    ELSE [exc |-> "-", results |-> {task[n] = "ok" : n \in launched}]

validate_result_SyncOnly(success, async_results) == success

\* the end of validate: `if False in async_results: success = False`
validate_result(success, async_results) ==
    IF FALSE \in async_results THEN FALSE ELSE success

is_submitted_PostOnly(method) == method = "POST"

\* is_submitted()
is_submitted(method) == method \in SUBMIT_METHODS

(* --------------------------- request state ---------------------------- *)

\* a request's state bag before anything is set on it
EmptyState == [csrf_token |-> NoneTok, csrf_valid |-> FALSE]

\* the attribute of request.state that csrf_protect sets to True
MARKER_NAME == "csrf_valid"

\* the value True as generate_csrf returns it from request.state
TrueValue == Cand("true", 0, 0, "-")

\* request.state as a record: csrf_token is the token generate_csrf has
\* stored as the attribute named by the field name (NoneTok: not stored),
\* csrf_valid tells that csrf_protect has set the attribute 'csrf_valid'.
\* With the field name 'csrf_valid' the two are one attribute.
\* hasattr(request.state, 'csrf_valid'):
hasattr_csrf_valid(st, field_name) ==
    st.csrf_valid \/ (field_name = MARKER_NAME /\ st.csrf_token.kind # "none")

\* getattr(request.state, field_name), NoneTok when there is no such
\* attribute
getattr_field(st, field_name) ==
    IF field_name = MARKER_NAME /\ st.csrf_valid /\ st.csrf_token.kind = "none"
    THEN TrueValue
    ELSE st.csrf_token

\* the request in progress: req.form is the value its body has under
\* 'csrf_token', req.query its query parameters
NoReq ==
    [sess |-> "-", method |-> "-", gated |-> FALSE, form |-> NoneTok,
     ctype |-> NoContentType, body |-> NoBody, query |-> EmptyFormData]

\* a request with the given Content-Type, body and query parameters
DataInput(ctype, body, query, headers, url, referer) ==
    [form |-> body.map.token, headers |-> headers, url |-> url,
     referer |-> referer, ctype |-> ctype, body |-> body, query |-> query]

\* a request that submits `form` as the token in an urlencoded body
Input(form, headers, url, referer) ==
    DataInput(URLENCODED_TYPE,
              Body("urlencoded", FormData(form, "", NoValues)),
              EmptyFormData, headers, url, referer)

NoInput == Input(NoneTok, {}, NoReferer, NoReferer)

\* the last call and its outcome; cleared by every step that is not a call.
\* For a validate_csrf call, `gen` is the secret of the generate_csrf call
\* right before it, when that call signed the request's token.
NoRet ==
    [op |-> "none", data |-> NoneTok, key |-> "-", tl |-> NoLimit,
     val |-> NoneTok, out |-> "-", cached |-> FALSE, enabled |-> FALSE,
     gen |-> "-", was |-> NoToken,
     r |-> NoInput,
     gate |-> GateResult(FALSE, NoExc, FALSE, FALSE, FALSE, NoneTok)]

\* the form of the request: no form instance yet.  A form instance has its
\* class and prefix; `arg` is the formdata argument from_formdata was
\* called with, `formdata` what the constructor got and `read` whether the
\* request's submitted data were read for it; `csrf` tells whether the form
\* has the csrf_token field, `token` is that field's data and `data` the
\* declared fields' data.  For the validate call: `extra` are the caller's
\* extra validators, `idx` the position of the synchronous phase in the
\* form's fields, `errors` the fields' error lists and `sync` what they
\* were when the synchronous phase ended, `completed` and `task` validate's
\* list of that name and the state of each field's _validate_async task,
\* `order` the fields in the order their tasks ended.  `phase` is where the
\* form is: "built", "sync" (validate is in super().validate), "gather"
\* (validate awaits asyncio.gather), "returned" or "raised" (validate has
\* returned `result` / raised `exc`).
NoForm ==
    [phase |-> "none", cls |-> StarletteForm, prefix |-> "", csrf |-> FALSE,
     arg |-> Auto, formdata |-> NoFormData, read |-> FALSE,
     token |-> NoneTok, data |-> NoValues, extra |-> NoExtra, idx |-> 0,
     errors |-> [n \in FieldNames |-> <<>>],
     sync |-> [n \in FieldNames |-> <<>>], completed |-> <<>>,
     task |-> [n \in DeclaredNames |-> "none"], order |-> <<>>,
     success |-> FALSE, checked |-> FALSE, call |-> "-", result |-> "-",
     exc |-> "-", fatal |-> "-", late |-> {},
     extra_validators |-> CallerMapping(NoExtra)]

\* the endpoint is suspended in a validate call
Running == formObj.phase \in {"sync", "gather"}

\* the signed token a client keeps from an earlier response, and the
\* session it was issued to
NoSaved == [tok |-> NoneTok, sess |-> "-"]

\* what a client can submit as a token
ClientTokens ==
    {NoneTok, EmptyTok, BadTok}
      \cup (IF saved.tok.kind = "signed" THEN {saved.tok} ELSE {})

TypeOK ==
    /\ now \in 0..MaxTime
    /\ session \in [Sessions -> ForeignValues \cup 0..MaxTok]
    /\ nextTok \in 1..(MaxTok + 1)
    /\ pc \in {"new", "failed", "idle", "handler", "raised"}
    /\ state.csrf_valid \in BOOLEAN

InitWith(cfgs) ==
    /\ now = 0
    /\ session = [s \in Sessions |-> NoToken]
    /\ nextTok = 1
    /\ saved = NoSaved
    /\ config \in cfgs
    /\ pc = "idle"
    /\ req = NoReq
    /\ state = EmptyState
    /\ first = NoneTok
    /\ ret = NoRet
    /\ formObj = NoForm

(* ----------------------------- actions -------------------------------- *)

\* the clock reaches the next second
Tick ==
    /\ now < MaxTime
    /\ formObj.phase # "sync"
    /\ now' = now + 1
    /\ ret' = NoRet
    /\ UNCHANGED <<session, nextTok, saved, config, pc, req, state, first,
                   formObj>>

\* a request of session s reaches an endpoint that csrf_protect does not wrap
PlainRequest(s, method) ==
    /\ pc = "idle"
    /\ pc' = "handler"
    /\ req' = [NoReq EXCEPT !.sess = s, !.method = method]
    /\ state' = EmptyState
    /\ first' = NoneTok
    /\ ret' = NoRet
    /\ UNCHANGED <<now, session, nextTok, saved, config, formObj>>

\* a request of session s reaches an endpoint wrapped by csrf_protect:
\* endpoint_wrapper runs up to the call of func or to the raise
ProtectedRequest(s, method, r) ==
    /\ pc = "idle"
    /\ LET g == csrf_protect(r, method, session[s], config, now)
       IN  /\ pc' = IF g.invoked THEN "handler" ELSE "raised"
           /\ state' = [EmptyState EXCEPT !.csrf_valid = g.csrf_valid]
           /\ ret' = [NoRet EXCEPT !.op = "csrf_protect", !.r = r,
                                   !.data = g.data, !.gate = g]
    /\ req' = [sess |-> s, method |-> method, gated |-> TRUE,
               form |-> r.form, ctype |-> r.ctype, body |-> r.body,
               query |-> r.query]
    /\ first' = NoneTok
    /\ UNCHANGED <<now, session, nextTok, saved, config, formObj>>

\* the endpoint calls generate_csrf(request, secret_key, field_name) with
\* the field name of the configuration ('csrf_token' by default)
GenerateCsrf(secret_key) ==
    /\ pc = "handler"
    /\ ~Running
    /\ \/ session[req.sess] # NoToken /\ Serializable(session[req.sess])
       \/ nextTok <= MaxTok
    /\ LET g == generate_csrf(session[req.sess],
                              getattr_field(state, config.csrf_field_name),
                              secret_key, now, nextTok)
       IN  /\ session' = [session EXCEPT ![req.sess] = g.session]
           /\ nextTok' = IF g.session = nextTok THEN nextTok + 1 ELSE nextTok
           /\ state' = IF g.cached THEN state
                       ELSE [state EXCEPT !.csrf_token = g.state]
           /\ first' = IF first.kind = "none" THEN g.val ELSE first
           /\ ret' = [NoRet EXCEPT !.op = "generate_csrf", !.key = secret_key,
                                   !.val = g.val, !.cached = g.cached,
                                   !.was = session[req.sess]]
    /\ UNCHANGED <<now, saved, config, pc, req, formObj>>

\* the endpoint calls csrf_token(request)
CsrfToken == GenerateCsrf(config.csrf_secret)

\* the endpoint calls validate_csrf(request, data, secret_key, 'csrf_token',
\* time_limit); the outcome is with the endpoint until it goes on (Resume)
ValidateCsrf(data, secret_key, time_limit) ==
    /\ pc = "handler"
    /\ ~Running
    /\ ret.op # "validate_csrf"
    /\ ret' = [NoRet EXCEPT
                 !.op = "validate_csrf", !.data = data, !.key = secret_key,
                 !.tl = time_limit,
                 !.gen = IF ret.op = "generate_csrf" /\ ~ret.cached
                         THEN ret.key ELSE "-",
                 !.out = validate_csrf(session[req.sess], data, secret_key,
                                       time_limit, now)]
    /\ session' = [session EXCEPT
                      ![req.sess] = validate_csrf_session(@, ret'.out)]
    /\ UNCHANGED <<now, nextTok, saved, config, pc, req, state, first,
                   formObj>>

\* the endpoint has taken the outcome of validate_csrf (it returned, or the
\* ValidationError was caught) and goes on
Resume ==
    /\ pc = "handler"
    /\ ret.op = "validate_csrf"
    /\ ret' = NoRet
    /\ UNCHANGED <<now, session, nextTok, saved, config, pc, req, state,
                   first, formObj>>

\* the endpoint puts a value of its own in the session under the field
\* name: request.session['csrf_token'] = v
SeedSession(v) ==
    /\ pc = "handler"
    /\ ~Running
    /\ session[req.sess] # v
    /\ session' = [session EXCEPT ![req.sess] = v]
    /\ ret' = NoRet
    /\ UNCHANGED <<now, nextTok, saved, config, pc, req, state, first, formObj>>

\* the endpoint removes the SessionToken: request.session.pop('csrf_token')
PopSession ==
    /\ pc = "handler"
    /\ ~Running
    /\ session[req.sess] # NoToken
    /\ session' = [session EXCEPT ![req.sess] = NoToken]
    /\ ret' = NoRet
    /\ UNCHANGED <<now, nextTok, saved, config, pc, req, state, first, formObj>>

\* the response leaves; the client may keep the signed token it carries
EndRequest(keep) ==
    /\ pc \in {"handler", "raised"}
    /\ ~Running
    /\ pc' = "idle"
    /\ formObj' = NoForm
    /\ req' = NoReq
    /\ state' = EmptyState
    /\ first' = NoneTok
    /\ ret' = NoRet
    /\ saved' = IF keep /\ state.csrf_token.kind = "signed"
                THEN [tok |-> state.csrf_token, sess |-> req.sess]
                ELSE saved
    /\ UNCHANGED <<now, session, nextTok, config>>

\* the application is built: CSRFProtectMiddleware(app, enabled=...,
\* csrf_secret=..., csrf_time_limit=..., csrf_ssl_strict=...) is constructed
Construct(enabled, csrf_secret, csrf_time_limit, csrf_ssl_strict) ==
    /\ pc = "new"
    /\ LET m == CSRFProtectMiddleware(enabled, csrf_secret, csrf_time_limit,
                                      csrf_ssl_strict)
       IN  /\ pc' = IF m.err = "none" THEN "idle" ELSE "failed"
           /\ config' = m.csrf_config
           /\ ret' = [NoRet EXCEPT
                        !.op = "construct", !.enabled = enabled,
                        !.key = csrf_secret,
                        !.out = IF m.err = "none" THEN OK ELSE m.msg]
    /\ UNCHANGED <<now, session, nextTok, saved, req, state, first, formObj>>

\* a request of session s with submitted data reaches an endpoint that
\* csrf_protect does not wrap
FormRequest(s, method, r) ==
    /\ pc = "idle"
    /\ pc' = "handler"
    /\ req' = [sess |-> s, method |-> method, gated |-> FALSE,
               form |-> r.form, ctype |-> r.ctype, body |-> r.body,
               query |-> r.query]
    /\ state' = EmptyState
    /\ first' = NoneTok
    /\ ret' = [NoRet EXCEPT !.op = "request", !.r = r]
    /\ UNCHANGED <<now, session, nextTok, saved, config, formObj>>

\* the endpoint constructs its form: cls.from_formdata(request,
\* formdata=formdata, prefix=prefix).  With CSRF enabled the form gets its
\* csrf_token field, whose processing calls generate_csrf with the form's
\* secret.
FromFormdata(cls, prefix, formdata) ==
    /\ pc = "handler"
    /\ formObj.phase = "none"
    /\ MetaCsrf(config) => prefix = ""
    /\ LET csrf == MetaCsrf(config)
           d == from_formdata(req.method, req.ctype, req.body, formdata)
           g == generate_csrf(session[req.sess],
                              getattr_field(state, config.csrf_field_name),
                              MetaSecret(config), now, nextTok)
       IN  /\ csrf => (session[req.sess] # NoToken \/ nextTok <= MaxTok)
           /\ formObj' =
                [NoForm EXCEPT
                   !.phase = "built", !.cls = cls, !.prefix = prefix,
                   !.csrf = csrf, !.arg = formdata,
                   !.formdata = d.formdata, !.read = d.read,
                   !.token = IF csrf THEN TokenData(d.formdata) ELSE NoneTok,
                   !.data = [n \in DeclaredNames |->
                               IF \E i \in 1..Len(cls.fields) :
                                     cls.fields[i] = n
                               THEN FieldData(d.formdata, prefix, n)
                               ELSE NoData]]
           /\ session' = IF csrf
                         THEN [session EXCEPT ![req.sess] = g.session]
                         ELSE session
           /\ nextTok' = IF csrf /\ g.session = nextTok THEN nextTok + 1
                         ELSE nextTok
           /\ state' = IF csrf /\ ~g.cached
                       THEN [state EXCEPT !.csrf_token = g.state]
                       ELSE state
           /\ first' = IF csrf /\ first.kind = "none" THEN g.val ELSE first
    /\ ret' = [NoRet EXCEPT !.op = "from_formdata"]
    /\ UNCHANGED <<now, saved, config, pc, req>>

\* "True" / "False": what validate returned
Returned(b) == IF b THEN "True" ELSE "False"

\* the fields of a form in the order of form._fields: the declared fields,
\* then csrf_token
Fields(f) ==
    f.cls.fields \o (IF f.csrf THEN <<DEFAULT_CSRF_FIELD_NAME>> ELSE <<>>)

\* the endpoint awaits form.validate(extra_validators=extra) (onSubmit:
\* form.validate_on_submit(extra_validators=extra)): validate_on_submit
\* returns False at once when the form is not submitted; else validate
\* registers the async validators and enters super().validate
ValidateCall(onSubmit, extra) ==
    /\ pc = "handler"
    /\ formObj.phase = "built"
    /\ IF onSubmit /\ ~is_submitted(req.method)
       THEN /\ formObj' = [formObj EXCEPT !.phase = "returned",
                                          !.call = "validate_on_submit",
                                          !.result = Returned(FALSE)]
            /\ ret' = [NoRet EXCEPT !.op = "validate"]
       ELSE /\ formObj' = [formObj EXCEPT
                             !.call = IF onSubmit THEN "validate_on_submit"
                                      ELSE "validate",
                             !.phase = "sync", !.idx = 1, !.extra = extra,
                             !.extra_validators =
                                extra_after(CallerMapping(extra),
                                            formObj.cls)]
            /\ ret' = NoRet
    /\ UNCHANGED <<now, session, nextTok, saved, config, pc, req, state,
                   first>>

Validate(extra) == ValidateCall(FALSE, extra)

ValidateOnSubmit(extra) == ValidateCall(TRUE, extra)

\* super().validate validates the next field of the form: the field's
\* errors are set anew, and record_status notes the field when the chain
\* gets to it
SyncStep ==
    /\ formObj.phase = "sync"
    /\ formObj.idx <= Len(Fields(formObj))
    /\ LET f == formObj
           n == Fields(f)[f.idx]
           c == validate_csrf_token(hasattr_csrf_valid(
                                       state, config.csrf_field_name),
                                    session[req.sess],
                                    f.token, config, now)
           v == SyncField(f.cls, f.extra, n, f.data[n])
       IN  formObj' =
             IF n = DEFAULT_CSRF_FIELD_NAME
             THEN [f EXCEPT
                     !.errors[n] = IF c.out # OK THEN <<c.out>> ELSE <<>>,
                     !.sync[n] = IF c.out # OK THEN <<c.out>> ELSE <<>>,
                     !.checked = c.called, !.idx = @ + 1]
             ELSE [f EXCEPT
                     !.errors[n] = v.errors, !.sync[n] = v.errors,
                     !.completed = IF v.recorded
                                   THEN record_status(@, f.prefix, n)
                                   ELSE @,
                     !.idx = @ + 1]
    /\ ret' = NoRet
    /\ UNCHANGED <<now, session, nextTok, saved, config, pc, req, state,
                   first>>

\* super().validate has returned: validate makes its list of tasks and gets
\* to `await asyncio.gather(*tasks)`; with no task it returns at once, and
\* it raises KeyError when async_validators has no key for a completed name
SyncDone ==
    /\ formObj.phase = "sync"
    /\ formObj.idx > Len(Fields(formObj))
    /\ LET f == formObj
           success == \A n \in FieldNames : f.errors[n] = <<>>
           names == {f.completed[i] : i \in 1..Len(f.completed)}
           missing == names \ async_validators(f.cls) # {}
       IN  formObj' =
             [f EXCEPT
                !.success = success,
                !.phase = IF missing THEN "raised"
                          ELSE IF f.completed = <<>> THEN "returned"
                          ELSE "gather",
                !.exc = IF missing THEN "KeyError" ELSE "-",
                !.result = IF ~missing /\ f.completed = <<>>
                           THEN Returned(validate_result(success, {}))
                           ELSE "-",
                !.task = [n \in DeclaredNames |->
                            IF ~missing /\ n \in names THEN "pending"
                            ELSE "none"]]
    /\ ret' = [NoRet EXCEPT !.op = "validate"]
    /\ UNCHANGED <<now, session, nextTok, saved, config, pc, req, state,
                   first>>

Runnable_DuringSync(f, n) ==
    /\ f.phase \in {"sync", "gather"}
    /\ f.task[n] \in {"none", "pending"}
    /\ \E i \in 1..Len(f.completed) : f.completed[i] = n

\* the event loop can run the first step of the task of field n: validate
\* is suspended in gather, and the tasks made before this one have started
Runnable(f, n) ==
    /\ f.phase = "gather"
    /\ f.task[n] = "pending"
    /\ \A i, j \in 1..Len(f.completed) :
          (i < j /\ f.completed[j] = n) => f.task[f.completed[i]] # "pending"

\* the event loop runs the first step of a task of gather:
\* _validate_async calls the async validator, which runs up to its first
\* await
TaskStart(n) ==
    /\ Runnable(formObj, n)
    /\ formObj' = [formObj EXCEPT !.task[n] = "waiting"]
    /\ ret' = NoRet
    /\ UNCHANGED <<now, session, nextTok, saved, config, pc, req, state,
                   first>>

Alive_Cancelled(f, n) == f.phase = "gather" /\ f.task[n] = "waiting"

\* the task of field n is suspended in its async validator and goes on
\* when the validator's await is over: gather cancels no task when it
\* raises, so the task lives on after validate has raised (`late` keeps the
\* fields whose tasks ended then)
Alive(f, n) == f.phase \in {"gather", "raised"} /\ f.task[n] = "waiting"

\* the async validator of field n ends, and _validate_async with it: the
\* validator returns ("ok"), raises ValidationError, which _validate_async
\* appends to the field's errors ("invalid"), or raises another exception
\* ("fatal"), which gather takes as its own if it is the first.  Nothing
\* stops the task when validate has already raised.
TaskFinish(n) ==
    /\ Alive(formObj, n)
    /\ LET v == validate_async(formObj.cls.async[n],
                               formObj.data[n] = Expected(n))
           target == ErrorField(n, formObj.order)
       IN  formObj' =
             [formObj EXCEPT
                !.task[n] = v.status,
                !.errors[target] = @ \o v.errors,
                !.order = Append(@, n),
                !.late = IF formObj.phase = "raised" THEN @ \cup {n} ELSE @,
                !.fatal = IF v.status = "fatal" /\ @ = "-" THEN n ELSE @]
    /\ ret' = NoRet
    /\ UNCHANGED <<now, session, nextTok, saved, config, pc, req, state,
                   first>>

\* the tasks of gather that validate made
Launched == {n \in DeclaredNames : formObj.task[n] # "none"}

Finished ==
    {n \in DeclaredNames : formObj.task[n] \in {"ok", "invalid", "fatal"}}

\* validate goes on after `await asyncio.gather(*tasks)`: gather raises the
\* first exception of a task, or gives the tasks' results when all have
\* ended
GatherDone ==
    /\ formObj.phase = "gather"
    /\ gather_ready(formObj.task, Launched, formObj.fatal)
    /\ LET g == gather(formObj.task, Launched, formObj.fatal)
       IN  formObj' =
             IF g.exc # "-"
             THEN [formObj EXCEPT !.phase = "raised", !.exc = g.exc]
             ELSE [formObj EXCEPT
                     !.phase = "returned",
                     !.result = Returned(validate_result(formObj.success,
                                                         g.results))]
    /\ ret' = NoRet
    /\ UNCHANGED <<now, session, nextTok, saved, config, pc, req, state,
                   first>>

(* -------------------------- specifications ---------------------------- *)

DefaultConfig == Config("K1", Limit(1), TRUE)

\* what the endpoint can pass to validate_csrf: what a client submitted, or
\* the token it has just generated
HandlerTokens ==
    ClientTokens
      \cup (IF state.csrf_token.kind = "signed" THEN {state.csrf_token}
            ELSE {})

\* endpoints that call generate_csrf and validate_csrf themselves
Init == InitWith({DefaultConfig})

Next ==
    \/ Tick
    \/ \E s \in Sessions : PlainRequest(s, "GET")
    \/ \E k \in Secrets : GenerateCsrf(k)
    \/ \E d \in HandlerTokens, k \in Secrets, tl \in TimeLimits :
          ValidateCsrf(d, k, tl)
    \/ Resume
    \/ PopSession
    \/ \E keep \in BOOLEAN : EndRequest(keep)

Spec == Init /\ [][Next]_vars

\* endpoints wrapped by csrf_protect and the endpoints that hand out the
\* token (csrf_token(request)), used by one client: the token is submitted
\* in the form data, over http and https
GateSessions == {"A"}

RequestUrl(scheme) == Url(scheme, "testserver", "None")

Referers ==
    {NoReferer, EmptyReferer, Url("https", "testserver", "None"),
     Url("http", "testserver", "None"), Url("https", "testserver2", "None"),
     Url("https", "testserver", "8080")}

GateInputs ==
    {Input(form, {}, RequestUrl(scheme), referer) :
        form \in ClientTokens, scheme \in {"http", "https"},
        referer \in Referers}

GateConfigs ==
    {Config("K1", tl, ssl) : tl \in {NoLimit, Limit(0)}, ssl \in BOOLEAN}

InitGate == InitWith(GateConfigs)

NextGate ==
    \/ Tick
    \/ \E s \in GateSessions : PlainRequest(s, "GET")
    \/ \E s \in GateSessions, m \in Methods, r \in GateInputs :
          ProtectedRequest(s, m, r)
    \/ CsrfToken
    \/ PopSession
    \/ \E keep \in BOOLEAN : EndRequest(keep)

SpecGate == InitGate /\ [][NextGate]_vars

\* the token submitted in the form data and in both configured headers,
\* under either spelling of the header names
HeaderValues == ClientTokens \ {NoneTok}

HeaderSets ==
    {h1 \cup h2 :
        h1 \in {{}} \cup {{[name |-> n, value |-> v]} :
                   n \in {"X-CSRFToken", "x-csrftoken"}, v \in HeaderValues},
        h2 \in {{}} \cup {{[name |-> n, value |-> v]} :
                   n \in {"X-CSRF-Token", "x-csrf-token"},
                   v \in HeaderValues}}

ExtractInputs ==
    {Input(form, headers, RequestUrl("http"), NoReferer) :
        form \in ClientTokens, headers \in HeaderSets}

InitExtract == InitWith({Config("K1", NoLimit, TRUE)})

NextExtract ==
    \/ \E s \in GateSessions : PlainRequest(s, "GET")
    \/ \E s \in GateSessions, m \in Methods, r \in ExtractInputs :
          ProtectedRequest(s, m, r)
    \/ CsrfToken
    \/ \E keep \in BOOLEAN : EndRequest(keep)

SpecExtract == InitExtract /\ [][NextExtract]_vars

\* endpoints that call generate_csrf and validate_csrf with the secret as
\* a str or wrapped in Secret
SecretKeys == {"K1", Secret("K1"), "K2", Secret("K2")}

SecretTimeLimits == {NoLimit, Limit(0)}

InitSecret == InitWith({DefaultConfig})

NextSecret ==
    \/ Tick
    \/ \E s \in GateSessions : PlainRequest(s, "GET")
    \/ \E k \in SecretKeys : GenerateCsrf(k)
    \/ \E d \in HandlerTokens, k \in SecretKeys, tl \in SecretTimeLimits :
          ValidateCsrf(d, k, tl)
    \/ Resume
    \/ \E keep \in BOOLEAN : EndRequest(keep)

SpecSecret == InitSecret /\ [][NextSecret]_vars

\* endpoints of one client that call generate_csrf and validate_csrf on a
\* session in which an endpoint may have put a value of its own under the
\* field name, or from which it may have removed the SessionToken
InitSession == InitWith({Config("K1", Limit(1), FALSE)})

NextSession ==
    \/ Tick
    \/ \E s \in GateSessions : PlainRequest(s, "GET")
    \/ \E v \in ForeignValues : SeedSession(v)
    \/ GenerateCsrf("K1")
    \/ \E d \in HandlerTokens, tl \in SecretTimeLimits :
          ValidateCsrf(d, "K1", tl)
    \/ Resume
    \/ PopSession
    \/ \E keep \in BOOLEAN : EndRequest(keep)

SpecSession == InitSession /\ [][NextSession]_vars

\* an application whose middleware is constructed with the default
\* csrf_field_name or with 'csrf_valid', with endpoints behind csrf_protect
\* and standing alone that validate a StarletteForm or hand out the token
FieldNameConfigs ==
    {ConfigNamed("K1", NoLimit, FALSE, n) :
        n \in {DEFAULT_CSRF_FIELD_NAME, MARKER_NAME}}

FieldNameInputs ==
    {Input(f, {}, RequestUrl("http"), NoReferer) : f \in ClientTokens}

InitFieldName == InitWith(FieldNameConfigs)

NextFieldName ==
    \/ \E s \in GateSessions, m \in {"GET", "POST"}, r \in FieldNameInputs :
          FormRequest(s, m, r)
    \/ \E s \in GateSessions, m \in {"GET", "POST"}, r \in FieldNameInputs :
          ProtectedRequest(s, m, r)
    \/ CsrfToken
    \/ FromFormdata(StarletteForm, "", Auto)
    \/ Validate(NoExtra)
    \/ SyncStep
    \/ SyncDone
    \/ \E keep \in BOOLEAN : EndRequest(keep)

SpecFieldName == InitFieldName /\ [][NextFieldName]_vars

\* an application whose middleware is constructed with a secret of each
\* accepted type (str, Secret, bytes); the client gets its token from an
\* endpoint calling csrf_token(request) or from one constructing a form,
\* and submits it to an endpoint behind csrf_protect or to a form
KeySecrets == {"K1", Secret("K1"), encode("K1")}

InitKey == InitWith({Config(k, NoLimit, FALSE) : k \in KeySecrets})

NextKey ==
    \/ \E s \in GateSessions : PlainRequest(s, "GET")
    \/ \E s \in GateSessions, r \in FieldNameInputs :
          FormRequest(s, "POST", r)
    \/ \E s \in GateSessions, r \in FieldNameInputs :
          ProtectedRequest(s, "POST", r)
    \/ CsrfToken
    \/ FromFormdata(StarletteForm, "", Auto)
    \/ Validate(NoExtra)
    \/ SyncStep
    \/ SyncDone
    \/ \E keep \in BOOLEAN : EndRequest(keep)

SpecKey == InitKey /\ [][NextKey]_vars

\* an application built with any CSRFProtectMiddleware options, whose
\* endpoints use StarletteForm, behind csrf_protect and standing alone; the
\* client sends its token in the form data or in the X-CSRFToken header
FormSecrets == {"K1", NoneSecret, EmptySecret}

FormTimeLimits == {NoLimit, Limit(0)}

FormHeaders ==
    {{}} \cup {{[name |-> "X-CSRFToken", value |-> v]} :
                 v \in ClientTokens \ {NoneTok, EmptyTok, BadTok}}

FormInputs ==
    {Input(f, headers, RequestUrl(scheme), referer) :
        f \in ClientTokens, headers \in FormHeaders,
        scheme \in {"http", "https"},
        referer \in {NoReferer, Url("https", "testserver", "None")}}

\* the application has not been built yet
InitForm ==
    /\ now = 0
    /\ session = [s \in Sessions |-> NoToken]
    /\ nextTok = 1
    /\ saved = NoSaved
    /\ config = NoConfig
    /\ pc = "new"
    /\ req = NoReq
    /\ state = EmptyState
    /\ first = NoneTok
    /\ ret = NoRet
    /\ formObj = NoForm

NextForm ==
    \/ \E e \in BOOLEAN, k \in FormSecrets, tl \in FormTimeLimits,
          ssl \in BOOLEAN : Construct(e, k, tl, ssl)
    \/ Tick
    \/ \E s \in GateSessions : PlainRequest(s, "GET")
    \/ \E s \in GateSessions, m \in {"GET", "POST"}, r \in FormInputs :
          FormRequest(s, m, r)
    \/ \E s \in GateSessions, m \in {"GET", "POST"}, r \in FormInputs :
          ProtectedRequest(s, m, r)
    \/ (~Falsy(config.csrf_secret) /\ CsrfToken)
    \/ FromFormdata(StarletteForm, "", Auto)
    \/ ValidateOnSubmit(NoExtra)
    \/ SyncStep
    \/ SyncDone
    \/ PopSession
    \/ \E keep \in BOOLEAN : EndRequest(keep)

SpecForm == InitForm /\ [][NextForm]_vars

\* an application without CSRFProtectMiddleware whose endpoints validate
\* forms with async validators, constructed with and without a prefix, on
\* the data of urlencoded requests; time goes by while validate waits
Prefixes == {"", "myprefix-"}

AsyncForms ==
    {FormClass(<<"field1", "field2">>, {"field2"}, inline, async) :
        inline \in {NoInline, [NoInline EXCEPT !["field1"] = "check"]},
        async \in [DeclaredNames -> {"check", "raise"}]}
      \cup {FormWithAsyncException, FormWithCustomValidators}

\* the values a request submits for the declared names
FormValues ==
    {v \in [DeclaredNames -> {NoData, "value1", "value2", "xxx"}] :
        \A n \in DeclaredNames : v[n] \in FieldValues(n)}

AsyncInputs ==
    {DataInput(URLENCODED_TYPE,
               Body("urlencoded", FormData(NoneTok, prefix, v)),
               EmptyFormData, {}, NoReferer, NoReferer) :
        prefix \in Prefixes, v \in FormValues}
      \cup {DataInput(URLENCODED_TYPE,
                      Body("urlencoded",
                           FormData(BadTok, "", [field1 |-> "value1",
                                                 field2 |-> "value2"])),
                      EmptyFormData, {}, NoReferer, NoReferer)}

InitAsync == InitWith({NoConfig})

NextAsync ==
    \/ \E s \in GateSessions, m \in Methods, r \in AsyncInputs :
          FormRequest(s, m, r)
    \/ \E cls \in AsyncForms, prefix \in Prefixes :
          FromFormdata(cls, prefix, Auto)
    \/ Validate(NoExtra)
    \/ ValidateOnSubmit(NoExtra)
    \/ SyncStep
    \/ SyncDone
    \/ \E n \in DeclaredNames : TaskStart(n)
    \/ \E n \in DeclaredNames : TaskFinish(n)
    \/ GatherDone
    \/ Tick
    \/ EndRequest(FALSE)

SpecAsync == InitAsync /\ [][NextAsync]_vars

\* the same, every step of a validate call being taken in the end: the
\* event loop runs what is ready, and every async validator ends
FairAsync ==
    /\ WF_vars(SyncStep)
    /\ WF_vars(SyncDone)
    /\ \A n \in DeclaredNames : WF_vars(TaskStart(n))
    /\ \A n \in DeclaredNames : WF_vars(TaskFinish(n))
    /\ WF_vars(GatherDone)

SpecAsyncLive == SpecAsync /\ FairAsync

\* forms whose field1 has every kind of synchronous validator, validated
\* with and without an extra validator of the caller
ChainForms ==
    {FormClass(<<"field1", "field2">>, required,
               [NoInline EXCEPT !["field1"] = i],
               [field1 |-> a, field2 |-> "check"]) :
        required \in {{}, {"field1"}}, i \in {"none", "check", "stop"},
        a \in {"none", "check"}}

ChainExtras ==
    {[NoExtra EXCEPT !["field1"] = e] : e \in {"none", "check", "stop"}}

ChainInputs ==
    {DataInput(URLENCODED_TYPE, Body("urlencoded", FormData(NoneTok, "", v)),
               EmptyFormData, {}, NoReferer, NoReferer) :
        v \in FormValues}

InitChain == InitWith({NoConfig})

NextChain ==
    \/ \E s \in GateSessions, r \in ChainInputs : FormRequest(s, "POST", r)
    \/ \E cls \in ChainForms : FromFormdata(cls, "", Auto)
    \/ \E extra \in ChainExtras : Validate(extra)
    \/ SyncStep
    \/ SyncDone
    \/ \E n \in DeclaredNames : TaskStart(n)
    \/ \E n \in DeclaredNames : TaskFinish(n)
    \/ GatherDone
    \/ EndRequest(FALSE)

SpecChain == InitChain /\ [][NextChain]_vars

\* an application with CSRFProtectMiddleware whose endpoints, wrapped by
\* csrf_protect or not, construct their form from requests of every
\* content type, with and without an explicit formdata argument
DataValues ==
    {[field1 |-> "value1", field2 |-> "value2"],
     [field1 |-> "xxx", field2 |-> NoData]}

DataBodies ==
    {<<ctype, Body(enc, FormData(t, "", v))>> :
        ctype \in {JSON_TYPE, JSON_CHARSET_TYPE, URLENCODED_TYPE,
                   MULTIPART_TYPE},
        enc \in {"json", "urlencoded", "multipart"},
        t \in ClientTokens \ {EmptyTok}, v \in DataValues}

\* the requests whose body is encoded as their Content-Type says, and the
\* request without body
DataInputs ==
    {DataInput(b[1], b[2], q, {}, RequestUrl("http"), NoReferer) :
        b \in {c \in DataBodies :
                 \/ MediaType(c[1]) = "application/json" /\ c[2].enc = "json"
                 \/ c[1] = URLENCODED_TYPE /\ c[2].enc = "urlencoded"
                 \/ c[1] = MULTIPART_TYPE /\ c[2].enc = "multipart"}
              \cup {<<NoContentType, NoBody>>},
        q \in {EmptyFormData,
               FormData(NoneTok, "", [field1 |-> "value1",
                                      field2 |-> "value2"])}}

\* the formdata argument of from_formdata: left out, None, a mapping of
\* the endpoint's own, or request.query_params
DataArgs ==
    {Auto, NoFormData,
     FormData(NoneTok, "", [field1 |-> "value1", field2 |-> "xxx"]),
     req.query}

InitData == InitWith({Config("K1", NoLimit, FALSE)})

NextData ==
    \/ \E s \in GateSessions, m \in {"GET", "POST", "PUT"},
          r \in DataInputs : FormRequest(s, m, r)
    \/ \E s \in GateSessions, m \in {"GET", "POST", "PUT"},
          r \in DataInputs : ProtectedRequest(s, m, r)
    \/ \E formdata \in DataArgs :
          FromFormdata(FormWithAsyncValidators, "", formdata)
    \/ Validate(NoExtra)
    \/ SyncStep
    \/ SyncDone
    \/ \E n \in DeclaredNames : TaskStart(n)
    \/ \E n \in DeclaredNames : TaskFinish(n)
    \/ GatherDone
    \/ \E keep \in BOOLEAN : EndRequest(keep)

SpecData == InitData /\ [][NextData]_vars

(* ------------------- claims on generate / validate -------------------- *)

\* time_limit is None or not negative
NonNegative(tl) == \A v \in tl : v >= 0

\* this step is validate_csrf called on the value the generate_csrf call
\* just before it returned, with the secret of that call
ValidatesJustGenerated ==
    /\ ret.op = "generate_csrf"
    /\ ret'.op = "validate_csrf"
    /\ ret'.data = ret.val
    /\ ret'.key = ret.key

\* the serializer key of the call that ret records
RetKey == want_bytes(ret.key)

\* C1 as stated: the token generate_csrf returns is accepted by
\* validate_csrf called right afterwards with the same secret on the same
\* session, whatever the time_limit.
C1_RoundTrip_AsStated ==
    [][ValidatesJustGenerated => ret'.out = OK]_vars

\* C1 amended: the token a generate_csrf call signs (a call not answered
\* from the per-request cache) is accepted by validate_csrf called right
\* afterwards, in the same second, with the same secret on the same
\* session, when time_limit is None or not negative.
C1_RoundTrip ==
    [][(ValidatesJustGenerated /\ ~ret.cached /\ NonNegative(ret'.tl))
          => ret'.out = OK]_vars

C1_Witness ==
    /\ ret.op = "validate_csrf"
    /\ ret.out = OK
    /\ ret.data = state.csrf_token
    /\ ret.data.ts = now
    /\ ret.data.key = RetKey
    /\ ret.tl = Limit(0)

\* the inputs of the validate_csrf call that ret records
SigValid == ret.data.kind = "signed" /\ ret.data.key = RetKey

Age == now - ret.data.ts

TooOld == \E v \in ret.tl : Age > v

SessVal == session[req.sess]

\* C3: validate_csrf reports the first failing check in the order: falsy
\* candidate (token missing), no SessionToken (session token missing),
\* valid signature but too old (expired), bad signature or encoding
\* (invalid), payload other than the SessionToken (mismatch); it succeeds
\* exactly when none applies.
C3_FirstFailingCheck ==
    ret.op = "validate_csrf" =>
      /\ ~Truthy(ret.data) => ret.out = TOKEN_MISSING
      /\ (Truthy(ret.data) /\ SessVal = NoToken) => ret.out = SESSION_MISSING
      /\ (Truthy(ret.data) /\ SessVal # NoToken /\ SigValid /\ TooOld)
            => ret.out = TOKEN_EXPIRED
      /\ (Truthy(ret.data) /\ SessVal # NoToken /\ ~SigValid)
            => ret.out = TOKEN_INVALID
      /\ (Truthy(ret.data) /\ SessVal # NoToken /\ SigValid /\ ~TooOld
            /\ ret.data.payload # SessVal)
            => ret.out = TOKEN_MISMATCH
      /\ ret.out = OK <=>
            (Truthy(ret.data) /\ SessVal # NoToken /\ SigValid /\ ~TooOld
               /\ ret.data.payload = SessVal)

\* a non-empty invalid candidate against a session without SessionToken
C3_Witness ==
    /\ ret.op = "validate_csrf"
    /\ ret.data = BadTok
    /\ SessVal = NoToken
    /\ ret.out = SESSION_MISSING

\* the candidate is the token the client kept, issued to session s
IssuedTo(s) == ret.data = saved.tok /\ saved.sess = s

\* C4: a signed token is accepted only while the validating session's
\* SessionToken equals its payload.  A token issued to another session is
\* rejected: session token missing when this session has none, tokens do
\* not match when it has its own (the token passing the signature and age
\* checks that come first).  A token issued to this session before its
\* SessionToken was removed and regenerated is rejected the same way.
C4_SessionBound ==
    (ret.op = "validate_csrf" /\ ret.data.kind = "signed") =>
      /\ ret.out = OK => SessVal = ret.data.payload
      /\ \A s \in Sessions \ {req.sess} : IssuedTo(s) =>
            /\ ret.out # OK
            /\ SessVal = NoToken => ret.out = SESSION_MISSING
            /\ (SessVal # NoToken /\ SigValid /\ ~TooOld)
                  => ret.out = TOKEN_MISMATCH
      /\ (IssuedTo(req.sess) /\ SessVal # NoToken
            /\ SessVal # ret.data.payload /\ SigValid /\ ~TooOld)
            => ret.out = TOKEN_MISMATCH

\* session A's token against session B, which has its own SessionToken
C4_Witness ==
    /\ ret.op = "validate_csrf"
    /\ \E s \in Sessions \ {req.sess} : IssuedTo(s)
    /\ SessVal # NoToken
    /\ ret.out = TOKEN_MISMATCH

\* C5: a token signed under one secret is rejected under any other secret
\* with 'The CSRF token is invalid.', whenever the session holds a
\* SessionToken (whatever the token's age).
C5_OtherSecretInvalid ==
    (ret.op = "validate_csrf" /\ ret.data.kind = "signed"
       /\ ret.data.key # RetKey /\ SessVal # NoToken)
      => ret.out = TOKEN_INVALID

\* ... the token also being older than the time limit
C5_Witness ==
    /\ ret.op = "validate_csrf"
    /\ ret.data.kind = "signed"
    /\ ret.data.key # RetKey
    /\ ret.data.payload = SessVal
    /\ TooOld
    /\ ret.out = TOKEN_INVALID

\* C6: a correctly signed token older than time_limit seconds fails with
\* 'The CSRF token has expired.' (against a session holding a
\* SessionToken, matching or not); not older, it is accepted by the
\* session whose SessionToken it carries.
C6_Expiry ==
    (ret.op = "validate_csrf" /\ SigValid /\ SessVal # NoToken
       /\ ret.tl # NoLimit) =>
      /\ TooOld => ret.out = TOKEN_EXPIRED
      /\ (~TooOld /\ ret.data.payload = SessVal) => ret.out = OK

\* a token that aged past a non-negative limit, otherwise acceptable
C6_Witness ==
    /\ ret.op = "validate_csrf"
    /\ SigValid
    /\ ret.data.payload = SessVal
    /\ ret.tl = Limit(0)
    /\ Age = 1
    /\ ret.out = TOKEN_EXPIRED

\* the same, at the limit: accepted
C6_WitnessBefore ==
    /\ ret.op = "validate_csrf"
    /\ SigValid
    /\ ret.tl = Limit(1)
    /\ Age = 1
    /\ ret.out = OK

\* C7: within one request every generate_csrf call returns the value the
\* first call returned, which is the value cached on request.state.
C7_Idempotent ==
    ret.op = "generate_csrf" =>
      /\ ret.val = first
      /\ state.csrf_token = first
      /\ first.kind = "signed"

\* a later call, in a later second and with another secret, answered from
\* the cache
C7_Witness ==
    /\ ret.op = "generate_csrf"
    /\ ret.cached
    /\ ret.val = first
    /\ first.ts < now
    /\ first.key # RetKey

\* this step is the first generate_csrf call of a request of the session
\* whose earlier response carried saved.tok, the SessionToken being the one
\* that token was signed from
GeneratesInNewRequest ==
    /\ ret'.op = "generate_csrf"
    /\ state.csrf_token.kind = "none"
    /\ saved.tok.kind = "signed"
    /\ saved.sess = req.sess
    /\ session[req.sess] = saved.tok.payload

\* C8 as stated: in a new request of the same session generate_csrf
\* returns a token different from the one of the previous request, the
\* SessionToken being unchanged.
C8_Different_AsStated ==
    [][GeneratesInNewRequest
          => (ret'.val # saved.tok /\ session' = session)]_vars

\* C8 amended: in a new request of the same session generate_csrf leaves
\* the SessionToken unchanged and returns it signed with the current
\* second; the token differs from the previous request's exactly when the
\* second (or the secret) differs, and is identical to it within the same
\* second.
C8_FreshStamp ==
    [][GeneratesInNewRequest =>
          /\ session' = session
          /\ ret'.val =
                Cand("signed", session[req.sess], now, want_bytes(ret'.key))
          /\ ret'.val # saved.tok
                <=> (now # saved.tok.ts
                       \/ want_bytes(ret'.key) # saved.tok.key)]_vars

\* a new request, a later second, the same secret: a different token of
\* the same SessionToken
C8_Witness ==
    /\ ret.op = "generate_csrf"
    /\ ~ret.cached
    /\ saved.sess = req.sess
    /\ saved.tok.kind = "signed"
    /\ saved.tok.payload = SessVal
    /\ saved.tok.key = RetKey
    /\ ret.val # saved.tok
    /\ ret.val.payload = saved.tok.payload

(* ------------------------- claims on the gate ------------------------- *)

\* ret records a pass through csrf_protect of a request with a mutating
\* method / with another method
GatedSubmit == ret.op = "csrf_protect" /\ req.method \in SUBMIT_METHODS

GatedRead == ret.op = "csrf_protect" /\ req.method \notin SUBMIT_METHODS

\* validate_csrf on the token the gate extracted, under the configuration
GateValidation ==
    validate_csrf(SessVal, ret.data, config.csrf_secret,
                  config.csrf_time_limit, now)

\* C2: for a mutating request the wrapped handler is invoked only if
\* validate_csrf succeeded for the extracted token; when validation fails
\* the handler is not invoked and a CSRFError with status 403 is raised
\* whose detail is the failure message.
C2_HandlerOnlyIfValid ==
    GatedSubmit =>
      /\ ret.data = get_csrf_token(ret.r, config)
      /\ pc = "handler" => GateValidation = OK
      /\ GateValidation # OK =>
            /\ pc = "raised"
            /\ ~ret.gate.invoked
            /\ ret.gate.exc.raised
            /\ ret.gate.exc.status_code = 403
            /\ ret.gate.exc.detail = GateValidation

\* an old token after the SessionToken was regenerated: 403, tokens do not
\* match
C2_Witness ==
    /\ GatedSubmit
    /\ pc = "raised"
    /\ ret.data = saved.tok
    /\ saved.sess = req.sess
    /\ ret.gate.exc.status_code = 403
    /\ ret.gate.exc.detail = TOKEN_MISMATCH

\* a valid token: the handler runs
C2_WitnessInvoked ==
    /\ GatedSubmit
    /\ pc = "handler"
    /\ GateValidation = OK

\* C9: for a request whose method is not POST, PUT, PATCH or DELETE the
\* wrapped handler is invoked unconditionally: no token is extracted,
\* validate_csrf is not called, no CSRFError is raised and csrf_valid is
\* not set on the request state.
C9_ReadPassesThrough ==
    GatedRead =>
      /\ pc = "handler"
      /\ ret.gate.invoked
      /\ ~ret.gate.extracted
      /\ ~ret.gate.validated
      /\ ~ret.gate.exc.raised
      /\ ~state.csrf_valid

\* a GET carrying a token that validation would reject, over https without
\* referrer
C9_Witness ==
    /\ GatedRead
    /\ req.method = "GET"
    /\ ret.r.form = BadTok
    /\ ret.r.url.scheme = "https"
    /\ ~ret.r.referer.present
    /\ config.csrf_ssl_strict
    /\ pc = "handler"

\* the request has a header of that name (in any spelling) and its value
HasHeader(r, name) == \E h \in r.headers : Lower(h.name) = Lower(name)

HeaderValue(r, name) ==
    (CHOOSE h \in r.headers : Lower(h.name) = Lower(name)).value

\* two candidates lead validate_csrf the same way: the same value, or both
\* missing
SameCandidate(a, b) == a = b \/ (~Truthy(a) /\ ~Truthy(b))

\* C10 as stated: the candidate is the value under the field name in the
\* submitted data when it is present; only if it is absent the configured
\* headers are scanned in declared order, case-insensitively, and the first
\* header present supplies the candidate; with neither, it is absent.
C10_Extraction_AsStated ==
    GatedSubmit =>
      LET r == ret.r
          h1 == DEFAULT_CSRF_HEADERS[1]
          h2 == DEFAULT_CSRF_HEADERS[2]
      IN  SameCandidate(ret.data,
            IF r.form.kind # "none" THEN r.form
            ELSE IF HasHeader(r, h1) THEN HeaderValue(r, h1)
            ELSE IF HasHeader(r, h2) THEN HeaderValue(r, h2)
            ELSE NoneTok)

\* C10 amended: the candidate is the value under the field name in the
\* submitted data when it is present and not empty; otherwise the
\* configured headers are scanned in declared order, case-insensitively,
\* and the first header with a non-empty value supplies the candidate; with
\* no non-empty value anywhere the candidate is absent.
C10_Extraction ==
    GatedSubmit =>
      LET r == ret.r
          h1 == DEFAULT_CSRF_HEADERS[1]
          h2 == DEFAULT_CSRF_HEADERS[2]
          Has(n) == HasHeader(r, n) /\ HeaderValue(r, n).kind # "empty"
      IN  ret.data =
            IF r.form.kind \notin {"none", "empty"} THEN r.form
            ELSE IF Has(h1) THEN HeaderValue(r, h1)
            ELSE IF Has(h2) THEN HeaderValue(r, h2)
            ELSE NoneTok

\* an empty form value and an empty first header, the second header sent
\* in lower case: it supplies the candidate
C10_Witness ==
    /\ GatedSubmit
    /\ ret.r.form = EmptyTok
    /\ [name |-> "X-CSRFToken", value |-> EmptyTok] \in ret.r.headers
    /\ [name |-> "x-csrf-token", value |-> saved.tok] \in ret.r.headers
    /\ ret.data = saved.tok
    /\ ret.data.kind = "signed"
    /\ pc = "handler"

(* ----------------------- claims on the middleware --------------------- *)

\* the csrf_token field's errors of the request's form
CsrfErrors == formObj.errors[DEFAULT_CSRF_FIELD_NAME]

\* the application's middleware was constructed with enabled=False
Disabled == config # NoConfig /\ ~config.enabled

\* C11 as stated: with enabled=false a handler wrapped by csrf_protect is
\* invoked for every mutating request, whatever token is or is not supplied
\* (never 403), and form-level validation never reports a CSRF error.
C11_DisabledNoOp ==
    Disabled =>
      /\ GatedSubmit => (pc = "handler" /\ ~ret.gate.exc.raised)
      /\ formObj.phase \in {"returned", "raised"}
            => (~formObj.checked /\ CsrfErrors = <<>>)

\* C12: constructing CSRFProtectMiddleware fails with RuntimeError
\* 'csrf_secret is required' exactly when enabled is true and csrf_secret is
\* None or empty; then no configuration exists and no request is ever
\* served.  With enabled=false it succeeds without a secret.
C12_SecretRequired ==
    /\ ret.op = "construct" =>
          /\ pc = "failed" <=> (ret.enabled /\ Falsy(ret.key))
          /\ pc = "failed" => (ret.out = REQUIRED_SECRET /\ config = NoConfig)
          /\ pc # "failed" =>
                /\ pc = "idle"
                /\ config.enabled = ret.enabled
                /\ config.csrf_secret = ret.key
    /\ pc = "failed" => (config = NoConfig /\ req = NoReq)
    /\ pc \in {"handler", "raised"} =>
          /\ config # NoConfig
          /\ config.enabled => ~Falsy(config.csrf_secret)

\* enabled=True with the empty string as secret: construction has failed
C12_Witness ==
    /\ pc = "failed"
    /\ ret.enabled
    /\ ret.key = EmptySecret
    /\ ret.out = REQUIRED_SECRET

\* enabled=False without secret: the application serves requests
C12_WitnessDisabled ==
    /\ pc = "handler"
    /\ Disabled
    /\ config.csrf_secret = NoneSecret

(* ------------------ claims on the same-origin check ------------------- *)

\* the request is https and csrf_ssl_strict is true
StrictHttps == ret.r.url.scheme = "https" /\ config.csrf_ssl_strict

\* the referrer's scheme, hostname or port is not the request URL's
OriginDiffers ==
    \/ ret.r.referer.scheme # ret.r.url.scheme
    \/ ret.r.referer.hostname # ret.r.url.hostname
    \/ ret.r.referer.port # ret.r.url.port

RaisedWith(detail) ==
    /\ pc = "raised"
    /\ ~ret.gate.invoked
    /\ ret.gate.exc = CSRFError(detail)

\* C13: for a mutating request whose token validates the gate checks the
\* referrer exactly when the scheme is https and csrf_ssl_strict is true:
\* 403 'The referrer header is missing.' without referrer (no header, or
\* one with no value), 403 'The referrer does not match the host.' when
\* its scheme, hostname or port is not the request URL's, and the handler
\* otherwise.  Over http or without csrf_ssl_strict the handler runs
\* whatever the referrer.  A referrer failure is only reported for a
\* request whose token validated.
C13_SameOrigin ==
    GatedSubmit =>
      /\ (GateValidation = OK /\ StrictHttps) =>
            /\ NoReferrer(ret.r.referer) => RaisedWith(REFERRER_MISSING)
            /\ (~NoReferrer(ret.r.referer) /\ OriginDiffers)
                  => RaisedWith(REFERRER_MISMATCH)
            /\ (~NoReferrer(ret.r.referer) /\ ~OriginDiffers)
                  => pc = "handler"
      /\ (GateValidation = OK /\ ~StrictHttps) => pc = "handler"
      /\ ret.gate.exc.detail \in {REFERRER_MISSING, REFERRER_MISMATCH}
            => (GateValidation = OK /\ StrictHttps)

\* a valid token over https, the referrer differing in the port alone
C13_Witness ==
    /\ GatedSubmit
    /\ GateValidation = OK
    /\ ret.r.referer.scheme = ret.r.url.scheme
    /\ ret.r.referer.hostname = ret.r.url.hostname
    /\ ret.r.referer.port # ret.r.url.port
    /\ RaisedWith(REFERRER_MISMATCH)

\* C14: whenever the handler wrapped by csrf_protect runs for a mutating
\* request, from its first step on, request.state carries csrf_valid; the
\* marker is on no request that did not pass the gate, and a request the
\* gate refused does not carry it.
C14_MarkedBeforeHandler ==
    /\ (pc = "handler" /\ req.gated /\ req.method \in SUBMIT_METHODS)
          => state.csrf_valid
    /\ (ret.op = "csrf_protect" /\ pc = "handler"
          /\ req.method \in SUBMIT_METHODS)
          => (ret.gate.csrf_valid /\ ret.gate.invoked)
    /\ state.csrf_valid
          => (pc = "handler" /\ req.gated /\ req.method \in SUBMIT_METHODS)

\* the handler of a POST that passed the gate and its referrer check is at
\* its first step
C14_Witness ==
    /\ GatedSubmit
    /\ pc = "handler"
    /\ StrictHttps
    /\ state.csrf_valid

(* ------------------- claims on the form's CSRF field ------------------ *)

\* ret records a validate call that ran the validators of a form with a
\* csrf_token field
ValidatedCsrfForm ==
    /\ ret.op = "validate"
    /\ formObj.csrf
    /\ formObj.phase = "returned"
    /\ is_submitted(req.method)

\* a POST of session s with input r gets through csrf_protect, behind which
\* the form's CSRF check is skipped
GateAccepts(s, r) == csrf_protect(r, "POST", session[s], config, now).invoked

\* a POST of session s with input r to an endpoint standing alone: the form
\* is constructed (which gives the session a SessionToken if it has none)
\* and its csrf_token field validates
AloneAccepts(s, r) ==
    LET g == generate_csrf(session[s], NoneTok, MetaSecret(config), now,
                           nextTok)
    IN  validate_csrf_token(FALSE, g.session, r.form, config, now).out = OK

\* the form validates, or skips, as validate_csrf_token says
FormCsrfCheck ==
    ValidatedCsrfForm =>
      /\ state.csrf_valid => (~formObj.checked /\ CsrfErrors = <<>>)
      /\ ~state.csrf_valid =>
            LET v == validate_csrf(SessVal, formObj.token,
                                   MetaSecret(config),
                                   config.csrf_time_limit, now)
            IN  /\ formObj.checked
                /\ formObj.token = req.form
                /\ CsrfErrors = IF v = OK THEN <<>> ELSE <<v>>

\* C15 as stated: form-level validation calls validate_csrf on the
\* submitted csrf field value unless the request state carries csrf_valid,
\* and then it is skipped without error; a form behind the gate and the
\* same form standing alone accept the same (session, token) pairs.
C15_SamePairs_AsStated ==
    /\ FormCsrfCheck
    /\ (pc = "idle" /\ MetaCsrf(config)) =>
          \A s \in GateSessions, r \in FormInputs :
             GateAccepts(s, r) <=> AloneAccepts(s, r)

\* the token of the request is the one under the form's field name, and
\* the gate's referrer check does not refuse the request
TokenInForm(r) == SameCandidate(get_csrf_token(r, config), r.form)

ReferrerPasses(r) ==
    (r.url.scheme = "https" /\ config.csrf_ssl_strict)
       => (~NoReferrer(r.referer) /\ same_origin(r.referer, r.url))

\* C15 amended: form-level validation calls validate_csrf on the submitted
\* csrf field value unless the request state carries csrf_valid, and then
\* it is skipped without error.  A form behind the gate and the same form
\* standing alone accept the same (session, token) pairs for the requests
\* that carry their token under the form's field name and that the gate's
\* referrer check lets pass; a token sent only in a header is accepted
\* behind the gate and reported missing by the form standing alone.
C15_SamePairs ==
    /\ FormCsrfCheck
    /\ (pc = "idle" /\ MetaCsrf(config)) =>
          \A s \in GateSessions, r \in FormInputs :
             /\ (TokenInForm(r) /\ ReferrerPasses(r))
                   => (GateAccepts(s, r) <=> AloneAccepts(s, r))
             /\ (~Truthy(r.form) /\ GateAccepts(s, r)) => ~AloneAccepts(s, r)

\* behind the gate, the token sent in a header only: the form's check was
\* skipped and validate_on_submit returned True
C15_Witness ==
    /\ ValidatedCsrfForm
    /\ req.gated
    /\ state.csrf_valid
    /\ ~Truthy(req.form)
    /\ ~formObj.checked
    /\ formObj.result = "True"

\* ... and the form standing alone refuses the request with the same token
\* in the form data after the SessionToken was replaced
C15_WitnessAlone ==
    /\ ValidatedCsrfForm
    /\ ~req.gated
    /\ formObj.checked
    /\ formObj.token = saved.tok
    /\ CsrfErrors = <<TOKEN_MISMATCH>>

\* the token the form got is not older than the configured time limit
FormTokenFresh ==
    \A v \in config.csrf_time_limit : now - formObj.token.ts <= v

\* C16: a StarletteForm standing alone on a CSRF-enabled application
\* validates the submitted token itself: with a malformed token
\* validate_on_submit returns False and the csrf_token errors are exactly
\* ['The CSRF token is invalid.']; with a signed token handed out before to
\* the same session (the session's SessionToken being still the one it was
\* signed from, and the token within the time limit) it returns True.
\* (The message is another one only if the endpoint itself removed the
\* SessionToken that constructing the form had put into the session.)
C16_FormValidatesAlone ==
    (ValidatedCsrfForm /\ ~req.gated /\ formObj.call = "validate_on_submit")
      =>
      /\ formObj.checked
      /\ formObj.token = BadTok =>
            /\ formObj.result = "False"
            /\ SessVal # NoToken => CsrfErrors = <<TOKEN_INVALID>>
      /\ (formObj.token = saved.tok /\ saved.tok.kind = "signed"
            /\ saved.sess = req.sess /\ saved.tok.payload = SessVal
            /\ FormTokenFresh)
            => (formObj.result = "True" /\ CsrfErrors = <<>>)

\* the malformed token on a session that had no SessionToken before the
\* form was constructed
C16_Witness ==
    /\ ValidatedCsrfForm
    /\ ~req.gated
    /\ formObj.token = BadTok
    /\ saved = NoSaved
    /\ formObj.result = "False"
    /\ CsrfErrors = <<TOKEN_INVALID>>

\* the signed token of an earlier response
C16_WitnessSigned ==
    /\ ValidatedCsrfForm
    /\ ~req.gated
    /\ formObj.token = saved.tok
    /\ saved.tok.kind = "signed"
    /\ formObj.result = "True"

(* --------------------- claims on async validation --------------------- *)

\* validate has run its validators on the request's form (validate itself,
\* or validate_on_submit on a submitted form)
RanValidate ==
    /\ formObj.phase \in {"gather", "returned", "raised"}
    /\ formObj.call = "validate" \/ req.method \in SUBMIT_METHODS

NoErrors == \A n \in FieldNames : formObj.errors[n] = <<>>

Declares(n) ==
    \E i \in 1..Len(formObj.cls.fields) : formObj.cls.fields[i] = n

\* the synchronous validation of field n was stopped early
Stopped(n) ==
    /\ Declares(n)
    /\ SyncField(formObj.cls, formObj.extra, n, formObj.data[n]).stopped

\* field n has an async validator and completed the synchronous phase
Eligible(n) ==
    Declares(n) /\ formObj.cls.async[n] # "none" /\ ~Stopped(n)

\* C17: validate returns True if and only if, after both phases, no field
\* carries an error; an async validator that raised ValidationError has
\* added exactly its message to the errors its own field had after the
\* synchronous phase, and no async validator changes the errors of
\* another field.
C17_ResultIffNoErrors ==
    /\ (RanValidate /\ formObj.phase = "returned")
          => (formObj.result = "True" <=> NoErrors)
    /\ \A n \in DeclaredNames :
          formObj.errors[n] =
             formObj.sync[n]
               \o (IF formObj.task[n] = "invalid" THEN <<FIELD_INCORRECT>>
                   ELSE <<>>)
    /\ CsrfErrors = formObj.sync[DEFAULT_CSRF_FIELD_NAME]

\* no error after the synchronous phase, one async validator raised
\* ValidationError, the other did not: validate returned False
C17_Witness ==
    /\ formObj.phase = "returned"
    /\ formObj.call = "validate"
    /\ \A n \in FieldNames : formObj.sync[n] = <<>>
    /\ formObj.task["field1"] = "invalid"
    /\ formObj.task["field2"] = "ok"
    /\ formObj.errors["field1"] = <<FIELD_INCORRECT>>
    /\ formObj.errors["field2"] = <<>>
    /\ formObj.result = "False"

\* C18 as stated: a field whose synchronous validation was stopped early
\* never has its async validator invoked in that validate call, while the
\* async validators of all other eligible fields are invoked, run to
\* completion and have their errors recorded.
C18_StopSkipsOnlyOwn ==
    (RanValidate /\ \E n \in DeclaredNames : Stopped(n)) =>
      /\ \A n \in DeclaredNames : Stopped(n) => formObj.task[n] = "none"
      /\ \A n \in DeclaredNames : Eligible(n) => formObj.task[n] # "none"
      /\ formObj.phase = "returned" =>
            \A n \in DeclaredNames : Eligible(n) =>
               /\ formObj.task[n] \in {"ok", "invalid"}
               /\ formObj.task[n] = "invalid"
                     <=> formObj.data[n] # Expected(n)

\* the same for the forms constructed without prefix (it holds)
C18_Unprefixed ==
    formObj.prefix = "" => C18_StopSkipsOnlyOwn

\* C19: when an async validator has raised an exception that is not a
\* ValidationError, validate does not return a boolean: it raises such an
\* exception (the first one a validator raised), and the exception is on no
\* field's error list.
C19_FatalPropagates ==
    (\E n \in DeclaredNames : formObj.task[n] = "fatal") =>
      /\ formObj.phase \in {"gather", "raised"}
      /\ formObj.result = "-"
      /\ formObj.fatal \in DeclaredNames
      /\ formObj.task[formObj.fatal] = "fatal"
      /\ formObj.phase = "raised" => formObj.exc = "Exception"
      /\ \A n \in DeclaredNames :
            formObj.task[n] = "fatal" => formObj.errors[n] = formObj.sync[n]

\* validate has raised the exception of field1's validator; the validator
\* of field2 raised ValidationError, which is on field2's errors
C19_Witness ==
    /\ formObj.phase = "raised"
    /\ formObj.exc = "Exception"
    /\ formObj.fatal = "field1"
    /\ formObj.task["field2"] = "invalid"
    /\ formObj.errors["field1"] = <<>>

\* C20 as stated: in a form constructed with a prefix every field that has
\* an async validator and completes the synchronous phase has that
\* validator invoked, validate returns without raising (no validator
\* raising an exception of its own), and the result and the fields' errors
\* are those of the form without prefix: the synchronous errors followed by
\* the async validator's.
C20_PrefixSame ==
    (RanValidate /\ formObj.prefix # "") =>
      /\ formObj.exc # "KeyError"
      /\ \A n \in DeclaredNames : Eligible(n) => formObj.task[n] # "none"
      /\ formObj.phase = "returned" =>
            /\ formObj.result = "True" <=> NoErrors
            /\ \A n \in DeclaredNames :
                  formObj.errors[n] =
                     formObj.sync[n]
                       \o (IF Eligible(n) /\ formObj.data[n] # Expected(n)
                           THEN <<FIELD_INCORRECT>> ELSE <<>>)

\* the same for the forms constructed without prefix (it holds)
C20_Unprefixed ==
    (RanValidate /\ formObj.prefix = "") =>
      /\ formObj.exc # "KeyError"
      /\ \A n \in DeclaredNames : Eligible(n) => formObj.task[n] # "none"
      /\ formObj.phase = "returned" =>
            /\ formObj.result = "True" <=> NoErrors
            /\ \A n \in DeclaredNames :
                  formObj.errors[n] =
                     formObj.sync[n]
                       \o (IF Eligible(n) /\ formObj.data[n] # Expected(n)
                           THEN <<FIELD_INCORRECT>> ELSE <<>>)

(* ----------------------- claims on the inputs ------------------------- *)

\* this validate_csrf call is given the token that the generate_csrf call
\* right before it signed, and a secret of the same text, one of the two
\* being a Secret
SecretPair ==
    /\ ret.op = "validate_csrf"
    /\ ret.gen # "-"
    /\ ret.data = state.csrf_token
    /\ str(ret.gen) = str(ret.key)
    /\ IsSecret(ret.gen) \/ IsSecret(ret.key)

\* C24: a token generated with Secret(k) validates with Secret(k) and with
\* the string k, and a token generated with the string k validates with
\* Secret(k) (validate_csrf called right after generate_csrf on the same
\* session, with time_limit None or not negative).
C24_SecretEquivalent ==
    (SecretPair /\ NonNegative(ret.tl)) => ret.out = OK

\* generated with the string, validated with the Secret
C24_Witness ==
    /\ SecretPair
    /\ ret.gen = "K1"
    /\ ret.key = Secret("K1")
    /\ ret.out = OK

\* generated with the Secret, validated with the string
C24_WitnessStr ==
    /\ SecretPair
    /\ ret.gen = Secret("K2")
    /\ ret.key = "K2"
    /\ ret.out = OK

\* generated and validated with the Secret
C24_WitnessBoth ==
    /\ SecretPair
    /\ ret.gen = Secret("K1")
    /\ ret.key = Secret("K1")
    /\ ret.tl = Limit(0)
    /\ ret.out = OK

(* ------------------ claims on the form's construction ----------------- *)

\* the request in progress is a POST, PUT, PATCH or DELETE
Mutating == req.method \in {"POST", "PUT", "PATCH", "DELETE"}

\* C21: is_submitted returns true exactly when the request method is POST,
\* PUT, PATCH or DELETE; validate_on_submit on another method returns False
\* and has run no synchronous or asynchronous validator (no field has
\* gained an error), and on those methods it runs the validators and
\* returns what validate returns.
C21_SubmitOnly ==
    /\ formObj.phase # "none" => (is_submitted(req.method) <=> Mutating)
    /\ (formObj.call = "validate_on_submit" /\ ~Mutating) =>
          /\ formObj.phase = "returned"
          /\ formObj.result = "False"
          /\ NoErrors
          /\ formObj.idx = 0
          /\ formObj.completed = <<>>
          /\ \A n \in DeclaredNames : formObj.task[n] = "none"
    /\ (formObj.call = "validate_on_submit" /\ Mutating
          /\ formObj.phase \in {"gather", "returned", "raised"}) =>
          /\ formObj.idx > Len(formObj.cls.fields)
          /\ \A n \in DeclaredNames : Declares(n) =>
                formObj.sync[n] =
                   SyncField(formObj.cls, formObj.extra, n,
                             formObj.data[n]).errors
          /\ formObj.phase = "returned"
                => (formObj.result = "True" <=> NoErrors)

\* validate_on_submit on a GET: validate would have found the required
\* field2 empty
C21_Witness ==
    /\ formObj.call = "validate_on_submit"
    /\ req.method = "GET"
    /\ "field2" \in formObj.cls.required
    /\ formObj.result = "False"
    /\ formObj.errors["field2"] = <<>>

\* validate_on_submit on a DELETE has run the validators
C21_WitnessSubmitted ==
    /\ formObj.call = "validate_on_submit"
    /\ req.method = "DELETE"
    /\ formObj.phase = "returned"
    /\ formObj.result = "False"
    /\ formObj.errors["field2"] = <<FIELD_REQUIRED>>

\* the data a form constructed from the mapping takes for its fields
DataFrom(formdata) ==
    /\ \A n \in DeclaredNames :
          formObj.data[n] = (IF Declares(n)
                             THEN FieldData(formdata, formObj.prefix, n)
                             ELSE NoData)
    /\ formObj.csrf => formObj.token = TokenData(formdata)

\* C22: from_formdata called without formdata populates the form from the
\* request's submitted data when the method is POST, PUT, PATCH or DELETE,
\* and constructs it with no data, reading neither body nor query, on any
\* other method; called with formdata, it gives the form that argument and
\* does not read the request, whatever the method.
C22_InputByMethod ==
    formObj.phase # "none" =>
      /\ (formObj.arg = Auto /\ Mutating) =>
            /\ formObj.read
            /\ formObj.formdata = get_formdata(req.ctype, req.body)
            /\ DataFrom(get_formdata(req.ctype, req.body))
      /\ (formObj.arg = Auto /\ ~Mutating) =>
            /\ ~formObj.read
            /\ formObj.formdata = NoFormData
            /\ formObj.data = NoValues
            /\ formObj.token = NoneTok
      /\ formObj.arg # Auto =>
            /\ ~formObj.read
            /\ formObj.formdata = formObj.arg
            /\ DataFrom(formObj.arg)

\* a GET whose body and query carry values, formdata left out: no data
C22_Witness ==
    /\ formObj.phase = "built"
    /\ req.method = "GET"
    /\ formObj.arg = Auto
    /\ req.body.map.values["field1"] = "value1"
    /\ req.query.values["field1"] = "value1"
    /\ formObj.data = NoValues

\* a GET with request.query_params given as formdata
C22_WitnessExplicit ==
    /\ formObj.phase = "built"
    /\ req.method = "GET"
    /\ formObj.arg = req.query
    /\ formObj.data["field2"] = "value2"

\* a POST with a mapping of the endpoint's own: the body is not used
C22_WitnessOverride ==
    /\ formObj.phase = "built"
    /\ req.method = "POST"
    /\ req.ctype = URLENCODED_TYPE
    /\ req.body.map.values["field2"] = "value2"
    /\ formObj.data["field2"] = "xxx"

\* a PUT, formdata left out
C22_WitnessSubmitted ==
    /\ formObj.phase = "built"
    /\ req.method = "PUT"
    /\ formObj.arg = Auto
    /\ formObj.data["field1"] = "xxx"

\* the Content-Type of the request names the media type application/json
IsJson == MediaType(req.ctype) = "application/json"

\* the mapping the claim has the submitted data come from
DataByMediaType ==
    IF IsJson THEN request_json(req.body)
    ELSE request_form(req.ctype, req.body)

\* the mapping a request with Content-Type exactly 'application/json' or
\* with another Content-Type has the submitted data come from
DataByHeader ==
    IF req.ctype = JSON_TYPE THEN request_json(req.body)
    ELSE request_form(req.ctype, req.body)

\* the form, and the gate's extraction, have read the mapping d
SubmittedIs(d) ==
    /\ (formObj.phase # "none" /\ formObj.read) => formObj.formdata = d
    /\ (ret.op = "csrf_protect" /\ ret.gate.extracted) =>
          ret.gate.data = (IF Truthy(d.token) THEN d.token ELSE NoneTok)

C23_WitnessCharset ==
    /\ ret.op = "csrf_protect"
    /\ req.method = "POST"
    /\ req.ctype = JSON_CHARSET_TYPE
    /\ req.body.map.token.kind = "signed"
    /\ req.body.map.token.payload = session[req.sess]
    /\ pc = "raised"
    /\ ret.gate.exc.detail = TOKEN_MISSING

\* a multipart POST
C23_WitnessForm ==
    /\ req.method = "POST"
    /\ req.ctype = MULTIPART_TYPE
    /\ formObj.phase = "built"
    /\ formObj.read
    /\ formObj.data["field1"] = "value1"

\* C25: with no csrf_config on request.state (no CSRFProtectMiddleware), a
\* form constructed for the request has no csrf_token field, generates no
\* token, and its validation makes no CSRF check: the token the request
\* submits and the session are not looked at, csrf_token has no error.
C25_NoConfigNoCsrf ==
    (config = NoConfig /\ formObj.phase # "none") =>
      /\ ~formObj.csrf
      /\ formObj.token = NoneTok
      /\ state.csrf_token = NoneTok
      /\ session[req.sess] = NoToken
      /\ ~formObj.checked
      /\ CsrfErrors = <<>>
      /\ \A i \in 1..Len(Fields(formObj)) :
            Fields(formObj)[i] # DEFAULT_CSRF_FIELD_NAME

\* a POST submitting 'badtoken' to a session without SessionToken: the form
\* validates to True
C25_Witness ==
    /\ config = NoConfig
    /\ req.method = "POST"
    /\ req.form = BadTok
    /\ session[req.sess] = NoToken
    /\ formObj.phase = "returned"
    /\ formObj.call = "validate"
    /\ formObj.cls = FormWithCustomValidators
    /\ formObj.result = "True"

(* ------------------- claims on the validation phases ------------------ *)

\* C26 as stated: in a validate call the async validator of a field is
\* launched if and only if the class has an async validator for the field
\* and no synchronous validator of the field (declared, extra of the
\* caller, inline validate_<name>) stopped the validation early; a field
\* with ordinary errors only is still launched.
C26_LaunchedIffNotStopped ==
    (RanValidate /\ formObj.exc # "KeyError") =>
      \A n \in DeclaredNames :
         formObj.task[n] # "none"
            <=> (Declares(n) /\ formObj.cls.async[n] # "none"
                   /\ ~Stopped(n))

\* the declared validators or the caller's extra validator of field n
\* stopped the validation early
StoppedBeforeHook(n) ==
    /\ Declares(n)
    /\ \/ n \in formObj.cls.required /\ formObj.data[n] = NoData
       \/ RunValidator(formObj.extra[n], n, formObj.data[n],
                       FIELD_EXTRA).stop

\* what holds: the inline validate_<name> is not among the validators whose
\* stop keeps the async validator from being launched
C26_LaunchedIffHookReached ==
    (RanValidate /\ formObj.exc # "KeyError") =>
      \A n \in DeclaredNames :
         formObj.task[n] # "none"
            <=> (Declares(n) /\ formObj.cls.async[n] # "none"
                   /\ ~StoppedBeforeHook(n))

\* the inline validate_field1 stopped the validation of field1, and the
\* async validator of field1 has run
C26_StoppedButLaunched ==
    /\ formObj.phase = "returned"
    /\ formObj.cls.inline["field1"] = "stop"
    /\ Stopped("field1")
    /\ formObj.task["field1"] = "invalid"
    /\ formObj.errors["field1"] = <<FIELD_INCORRECT, FIELD_INCORRECT>>

\* a field with an ordinary error of the caller's extra validator has its
\* async validator launched
C26_ErrorsButLaunched ==
    /\ formObj.phase = "gather"
    /\ formObj.extra["field1"] = "check"
    /\ formObj.sync["field1"] = <<FIELD_EXTRA>>
    /\ formObj.task["field1"] = "waiting"

\* some async validator of the validate call has started executing
SomeStarted ==
    \E n \in DeclaredNames : formObj.task[n] \notin {"none", "pending"}

\* C27: phase ordering.  While the synchronous validation of the form is
\* under way no async validator has started, and an async validator that
\* has started finds the synchronous validation finished for every field
\* of the form: the synchronous errors of each field are the final ones of
\* its chain.
C27_PhaseOrdering ==
    /\ formObj.phase = "sync" =>
          /\ ~SomeStarted
          /\ formObj.order = <<>>
    /\ SomeStarted =>
          /\ formObj.phase \in {"gather", "returned", "raised"}
          /\ formObj.idx > Len(Fields(formObj))
          /\ \A n \in DeclaredNames :
                Declares(n) =>
                   formObj.sync[n]
                     = SyncField(formObj.cls, formObj.extra, n,
                                 formObj.data[n]).errors

\* the async validator of field1 has started while validate waits in
\* gather; the synchronous validation of the later field2 has finished with
\* an error
C27_Witness ==
    /\ formObj.phase = "gather"
    /\ formObj.task["field1"] = "waiting"
    /\ formObj.task["field2"] = "none"
    /\ formObj.sync["field2"] = <<FIELD_REQUIRED>>
    /\ formObj.idx > Len(Fields(formObj))

\* validate has got past `await asyncio.gather(*tasks)`
GatherOver ==
    /\ formObj.phase \in {"returned", "raised"}
    /\ Launched # {}

\* C28: fan-out/fan-in.  When validate goes on after gather, every task it
\* made has started; and when it returns, every task has ended (none with
\* an exception other than ValidationError) and the tasks that ended are
\* the tasks that were made, in whatever order they ended.
C28_FanOutFanIn ==
    /\ GatherOver => \A n \in Launched : formObj.task[n] # "pending"
    /\ (GatherOver /\ formObj.phase = "returned") =>
          /\ \A n \in Launched : formObj.task[n] \in {"ok", "invalid"}
          /\ {formObj.order[i] : i \in 1..Len(formObj.order)} = Launched
          /\ Len(formObj.order) = Cardinality(Launched)
          /\ formObj.fatal = "-"

\* validate has returned after two tasks, of which the one made last ended
\* first
C28_Witness ==
    /\ formObj.phase = "returned"
    /\ formObj.completed = <<"field1", "field2">>
    /\ formObj.order = <<"field2", "field1">>

\* validate has returned after two tasks that ended in the order they were
\* made
C28_WitnessFifo ==
    /\ formObj.phase = "returned"
    /\ formObj.completed = <<"field1", "field2">>
    /\ formObj.order = <<"field1", "field2">>

\* both tasks are started and none has ended: validate is still in gather
C28_WitnessAllStarted ==
    /\ formObj.phase = "gather"
    /\ formObj.task = [field1 |-> "waiting", field2 |-> "waiting"]

\* the errors of declared field n after both phases, from the form's class
\* and data alone: those of its synchronous chain, then the message of its
\* async validator when the chain got to record_status
FinalErrors(n) ==
    LET v == SyncField(formObj.cls, formObj.extra, n, formObj.data[n])
    IN  v.errors
          \o (IF v.recorded
              THEN validate_async(formObj.cls.async[n],
                                  formObj.data[n] = Expected(n)).errors
              ELSE <<>>)

\* C29: deterministic aggregation.  When validate returns, every field's
\* errors and the boolean returned are given by the form's class and data,
\* whatever the order in which the async validators ended.
C29_OrderIndependent ==
    (RanValidate /\ formObj.phase = "returned") =>
       /\ \A n \in DeclaredNames :
             Declares(n) => formObj.errors[n] = FinalErrors(n)
       /\ formObj.result = "True"
            <=> /\ \A n \in DeclaredNames :
                      Declares(n) => FinalErrors(n) = <<>>
                /\ formObj.sync[DEFAULT_CSRF_FIELD_NAME] = <<>>

\* both async validators raised ValidationError, the one made last ended
\* first: each field has its own message and validate returned False
C29_Witness ==
    /\ formObj.phase = "returned"
    /\ formObj.order = <<"field2", "field1">>
    /\ formObj.task = [field1 |-> "invalid", field2 |-> "invalid"]
    /\ formObj.errors["field1"] = <<FIELD_INCORRECT>>
    /\ formObj.errors["field2"] = <<FIELD_INCORRECT>>
    /\ formObj.result = "False"

\* the same form and data with the tasks ended in the order they were made
C29_WitnessFifo ==
    /\ formObj.phase = "returned"
    /\ formObj.order = <<"field1", "field2">>
    /\ formObj.task = [field1 |-> "invalid", field2 |-> "invalid"]
    /\ formObj.errors["field1"] = <<FIELD_INCORRECT>>
    /\ formObj.errors["field2"] = <<FIELD_INCORRECT>>
    /\ formObj.result = "False"

\* validate is in gather with a task that has not ended, and no task has
\* let an exception through
Stalled ==
    /\ \E n \in Launched : formObj.task[n] \in {"pending", "waiting"}
    /\ formObj.fatal = "-"

ValidateOver == formObj.phase \in {"returned", "raised"}

\* C30: termination.  When the event loop runs what is ready and every
\* async validator ends, a validate call under way returns or raises in the
\* end; and as long as a launched async validator has not ended and none
\* has raised another exception than ValidationError, validate stays in
\* gather: nothing but the validators' ends makes it go on.
C30_Termination ==
    /\ Running ~> ValidateOver
    /\ [](Stalled => formObj.phase = "gather")
    /\ [][Stalled /\ ValidateOver' => FALSE]_vars

\* validate waits in gather for the async validator of field2, that of
\* field1 having ended, and the clock is at its last value
C30_Witness ==
    /\ formObj.phase = "gather"
    /\ now = MaxTime
    /\ formObj.task["field1"] \in {"ok", "invalid"}
    /\ formObj.task["field2"] = "waiting"
    /\ Stalled

(* ------------------ claims on exceptions of validators ---------------- *)

\* validate has raised the exception of an async validator
RaisedByValidator ==
    formObj.phase = "raised" /\ formObj.exc = "Exception"

\* C31: when an async validator has let through an exception other than
\* ValidationError, validate can raise it though other async validators
\* have not ended; those are not cancelled: after validate has raised each
\* of them is still able to end.
C31_SiblingsNotCancelled ==
    /\ (formObj.phase = "gather" /\ formObj.fatal # "-"
          /\ \A n \in Launched : formObj.task[n] # "pending")
         => ENABLED GatherDone
    /\ RaisedByValidator =>
          /\ formObj.fatal # "-"
          /\ formObj.task[formObj.fatal] = "fatal"
          /\ \A n \in DeclaredNames :
                formObj.task[n] = "waiting" => ENABLED TaskFinish(n)

\* validate raised the exception of field1's validator while field2's was
\* running; field2's validator ended afterwards with ValidationError
C31_Witness ==
    /\ RaisedByValidator
    /\ formObj.fatal = "field1"
    /\ formObj.late = {"field2"}
    /\ formObj.task["field2"] = "invalid"

\* validate has raised and a sibling of the raising validator is running
C31_WitnessRunning ==
    /\ RaisedByValidator
    /\ formObj.fatal = "field1"
    /\ formObj.task["field2"] = "waiting"

\* C36 as stated: once validate has returned or raised, no step changes the
\* errors of a field of the form.
C36_ErrorsFinal ==
    [][(ValidateOver /\ ValidateOver') => formObj'.errors = formObj.errors]_vars

\* what holds: the errors are final once validate has returned, or has
\* raised before it made a task
C36_ErrorsFinalOnReturn ==
    [][((formObj.phase = "returned" \/ formObj.exc = "KeyError")
          /\ ValidateOver /\ ValidateOver')
         => formObj'.errors = formObj.errors]_vars

\* field2 got the message of its async validator after validate had raised
\* the exception of field1's
C36_LateError ==
    /\ RaisedByValidator
    /\ "field2" \in formObj.late
    /\ formObj.errors["field2"] = formObj.sync["field2"] \o <<FIELD_INCORRECT>>

(* --------------------- claims on the SessionToken --------------------- *)

\* the session holds a value under the field name that the serializer signs
Signable(v) == v # NoToken /\ Serializable(v)

\* C32: a call of generate_csrf or validate_csrf leaves a signable value of
\* the session as it is; the only change such a call makes to a session is
\* generate_csrf storing a SessionToken never used before in the request's
\* session, which held none (or a value that cannot be signed).
C32_LazyAndStable ==
    [][ret'.op \in {"generate_csrf", "validate_csrf"} =>
         \A s \in Sessions :
            /\ Signable(session[s]) => session'[s] = session[s]
            /\ session'[s] # session[s] =>
                  /\ ret'.op = "generate_csrf"
                  /\ s = req.sess
                  /\ session'[s] = nextTok
                  /\ nextTok' = nextTok + 1
                  /\ \A u \in Sessions : session[u] < nextTok]_vars

\* generate_csrf in a later request of a session that holds SessionToken 1:
\* it signed anew (no cache) and the session still holds 1, no other
\* SessionToken having been made
C32_Witness ==
    /\ ret.op = "generate_csrf"
    /\ ~ret.cached
    /\ saved.tok.kind = "signed"
    /\ saved.tok.payload = 1
    /\ session[req.sess] = 1
    /\ nextTok = 2

\* generate_csrf on a session without SessionToken has stored one
C32_WitnessCreated ==
    /\ ret.op = "generate_csrf"
    /\ ~ret.cached
    /\ saved.tok.kind = "none"
    /\ session[req.sess] = 1
    /\ nextTok = 2

\* generate_csrf has answered without its per-request cache (`was` is the
\* session's value it found)
Generated == ret.op = "generate_csrf" /\ ~ret.cached

\* C33: when the value generate_csrf finds in the session cannot be signed
\* (the serializer raises TypeError), the session holds afterwards a
\* SessionToken never used before, and generate_csrf has returned and
\* cached the signed form of that token, stamped with the current second.
C33_RegeneratesOnTypeError ==
    (Generated /\ ret.was # NoToken /\ ~Serializable(ret.was)) =>
       /\ IsStr(session[req.sess])
       /\ session[req.sess] = nextTok - 1
       /\ ret.val = Cand("signed", session[req.sess], now, want_bytes(ret.key))
       /\ state.csrf_token = ret.val
       /\ validate_csrf(session[req.sess], ret.val, ret.key, NoLimit, now) = OK

\* generate_csrf found the bytes value in the session and returned a signed
\* token
C33_Witness ==
    /\ Generated
    /\ ret.was = BytesValue
    /\ ret.val.kind = "signed"
    /\ session[req.sess] = 1

\* the messages of the ValidationErrors of validate_csrf
CsrfMessages ==
    {TOKEN_MISSING, SESSION_MISSING, TOKEN_EXPIRED, TOKEN_INVALID,
     TOKEN_MISMATCH}

\* C37 as stated: validate_csrf returns, or raises a ValidationError with
\* one of its five messages, whatever the session holds under the field
\* name and whatever is submitted.
C37_OnlyValidationError ==
    ret.op = "validate_csrf" => ret.out \in {OK} \cup CsrfMessages

\* what holds: the same when the session's value, if any, and the payload
\* of a submitted token that the serializer loads are strings
C37_OnlyValidationErrorOnStr ==
    (/\ ret.op = "validate_csrf"
     /\ session[req.sess] = NoToken \/ IsStr(session[req.sess])
     /\ ret.data.kind = "signed" => IsStr(ret.data.payload))
       => ret.out \in {OK} \cup CsrfMessages

\* validate_csrf raised TypeError: the session holds the int 1 and the
\* submitted token is the one generate_csrf made from it
C37_TypeError ==
    /\ ret.op = "validate_csrf"
    /\ ret.out = TYPE_ERROR
    /\ session[req.sess] = IntValue
    /\ ret.data = state.csrf_token
    /\ ret.data.payload = IntValue

\* the client's token was issued to the session of the request, which still
\* holds the SessionToken the token was made from
SavedMatches ==
    /\ pc = "handler"
    /\ saved.tok.kind = "signed"
    /\ saved.sess = req.sess
    /\ IsStr(saved.tok.payload)
    /\ session[req.sess] = saved.tok.payload

\* C38: validate_csrf is read-only.  Succeeding or failing, a call leaves
\* the sessions and the request state as they were, and the same call made
\* again has the same outcome; so in every later request the client's
\* token is accepted as long as the session holds the SessionToken it was
\* made from and the token is not older than the time limit.
C38_ReadOnly ==
    /\ [][ret'.op = "validate_csrf" =>
            /\ session' = session
            /\ state' = state
            /\ validate_csrf(session'[req.sess], ret'.data, ret'.key,
                             ret'.tl, now') = ret'.out]_vars
    /\ [](SavedMatches =>
            \A tl \in SecretTimeLimits :
               validate_csrf(session[req.sess], saved.tok,
                             config.csrf_secret, tl, now)
                 = IF \E v \in tl : now - saved.tok.ts > v
                   THEN TOKEN_EXPIRED ELSE OK)

\* the token of an earlier request has been accepted in a request that
\* made no token of its own, a second after it was signed
C38_Witness ==
    /\ ret.op = "validate_csrf"
    /\ ret.out = OK
    /\ ret.data = saved.tok
    /\ state.csrf_token.kind = "none"
    /\ now > saved.tok.ts
    /\ SavedMatches

\* a failing call: the client's token is refused as expired and the
\* session holds its SessionToken as before
C38_WitnessFailed ==
    /\ ret.op = "validate_csrf"
    /\ ret.out = TOKEN_EXPIRED
    /\ ret.data = saved.tok
    /\ SavedMatches

\* C39 as stated: every value generate_csrf returns is the signed form of
\* the value the session holds under the field name when it returns, and
\* validates against it.
C39_SignsCurrentToken ==
    ret.op = "generate_csrf" =>
       /\ ret.val.kind = "signed"
       /\ ret.val.payload = session[req.sess]
       /\ validate_csrf(session[req.sess], ret.val, ret.key, NoLimit, now)
            \in {OK, TYPE_ERROR}

\* what holds: the same for the calls not answered from the per-request
\* cache
C39_SignsCurrentTokenUncached ==
    Generated =>
       /\ ret.val.kind = "signed"
       /\ ret.val.payload = session[req.sess]
       /\ validate_csrf(session[req.sess], ret.val, ret.key, NoLimit, now)
            \in {OK, TYPE_ERROR}

\* the SessionToken was removed after a first generate_csrf of the request:
\* the second call returned the cached token and stored no SessionToken
C39_StaleAfterPop ==
    /\ ret.op = "generate_csrf"
    /\ ret.cached
    /\ ret.val.payload = 1
    /\ session[req.sess] = NoToken
    /\ validate_csrf(session[req.sess], ret.val, ret.key, NoLimit, now)
         = SESSION_MISSING

\* the SessionToken was replaced after a first generate_csrf of the request
C39_StaleAfterReplace ==
    /\ ret.op = "generate_csrf"
    /\ ret.cached
    /\ ret.val.payload = 1
    /\ session[req.sess] = IntValue

(* -------------------- claims on the csrf_valid marker ------------------ *)

\* the gate validated the request: csrf_protect let a submitting request
\* through and set the marker
GateValidated ==
    req.gated /\ req.method \in SUBMIT_METHODS /\ state.csrf_valid

\* the form-level CSRF check of the request's form skipped validate_csrf
FormSkippedCheck ==
    /\ formObj.csrf
    /\ formObj.phase \in {"gather", "returned", "raised"}
    /\ ~formObj.checked

\* C34 as stated: for every configured field name, request.state has the
\* attribute csrf_valid only when the gate validated the request, and the
\* form-level check skips validate_csrf only then.
C34_MarkerOnlyFromGate ==
    pc = "handler" =>
       /\ hasattr_csrf_valid(state, config.csrf_field_name) => GateValidated
       /\ FormSkippedCheck => GateValidated

\* what holds: the same for every field name but 'csrf_valid'
C34_MarkerOnlyFromGateOtherNames ==
    (pc = "handler" /\ config.csrf_field_name # MARKER_NAME) =>
       /\ hasattr_csrf_valid(state, config.csrf_field_name) => GateValidated
       /\ FormSkippedCheck => GateValidated

\* an endpoint without csrf_protect got a POST without token; its form,
\* whose construction stored the generated token as request.state.csrf_valid,
\* skipped the CSRF check and validated
C34_SkippedWithoutGate ==
    /\ config.csrf_field_name = MARKER_NAME
    /\ ~req.gated
    /\ req.method = "POST"
    /\ formObj.token = NoneTok
    /\ FormSkippedCheck
    /\ formObj.phase = "returned"
    /\ formObj.result = "True"

\* the same form under the default field name: the check ran and failed
C34_CheckedWithoutGate ==
    /\ config.csrf_field_name = DEFAULT_CSRF_FIELD_NAME
    /\ ~req.gated
    /\ req.method = "POST"
    /\ formObj.token = NoneTok
    /\ formObj.checked
    /\ formObj.phase = "returned"
    /\ formObj.result = "False"

(* ----------------------- claims on the signing key --------------------- *)

\* the key csrf_token(request) and csrf_protect sign and verify with
GateKey == want_bytes(HandleSecret(config.csrf_secret))

\* the key the form's CSRF field signs and verifies with
FormKey == want_bytes(MetaSecret(config))

\* the client submits, to the session it was issued to, a token whose
\* SessionToken the session still holds
SubmitsOwn(tok) ==
    /\ tok = saved.tok
    /\ saved.tok.kind = "signed"
    /\ saved.sess = req.sess
    /\ session[req.sess] = saved.tok.payload

\* the form-level check of the request's form has validated the submitted
\* token
FormChecked ==
    /\ formObj.csrf
    /\ formObj.checked
    /\ formObj.phase \in {"gather", "returned", "raised"}

\* C35 as stated: for every secret the middleware accepts, a token issued by
\* the form's CSRF field passes csrf_protect in a later request of the
\* session, and a token issued by csrf_token(request) passes the form-level
\* check.
C35_SameKeyBothPaths ==
    /\ (ret.op = "csrf_protect" /\ SubmitsOwn(ret.data)
          /\ saved.tok.key = FormKey)
         => ret.gate.invoked
    /\ (FormChecked /\ SubmitsOwn(formObj.token) /\ saved.tok.key = GateKey)
         => CsrfErrors = <<>>

\* what holds: the same for a str secret and for a Secret
C35_SameKeyStrAndSecret ==
    config.csrf_secret \notin BytesValues =>
       /\ (ret.op = "csrf_protect" /\ SubmitsOwn(ret.data)
             /\ saved.tok.key = FormKey)
            => ret.gate.invoked
       /\ (FormChecked /\ SubmitsOwn(formObj.token) /\ saved.tok.key = GateKey)
            => CsrfErrors = <<>>

\* bytes secret: the token of csrf_token(request) is refused by the form
C35_GateTokenRefusedByForm ==
    /\ config.csrf_secret = encode("K1")
    /\ FormChecked
    /\ SubmitsOwn(formObj.token)
    /\ saved.tok.key = GateKey
    /\ CsrfErrors = <<TOKEN_INVALID>>

\* bytes secret: the token of the form's field is refused by csrf_protect
C35_FormTokenRefusedByGate ==
    /\ config.csrf_secret = encode("K1")
    /\ ret.op = "csrf_protect"
    /\ SubmitsOwn(ret.data)
    /\ saved.tok.key = FormKey
    /\ ret.gate.exc = CSRFError(TOKEN_INVALID)

\* Secret: the token of csrf_token(request) is accepted by the form
C35_SecretAccepted ==
    /\ config.csrf_secret = Secret("K1")
    /\ FormChecked
    /\ SubmitsOwn(formObj.token)
    /\ formObj.phase = "returned"
    /\ formObj.result = "True"

(* ------------------ claims on the caller's validators ------------------ *)

\* C40 as stated: in and after a validate call the mapping the caller
\* passed as extra_validators has the keys and each list the elements it
\* had before the call.
C40_CallerMappingUntouched ==
    RanValidate => formObj.extra_validators = CallerMapping(formObj.extra)

\* what holds: the mapping keeps its keys, and a list changes only by
\* validators appended to it
C40_CallerKeysUntouched ==
    RanValidate =>
       \A n \in DeclaredNames :
          LET before == CallerMapping(formObj.extra)[n]
              after  == formObj.extra_validators[n]
          IN  /\ after.has = before.has
              /\ Len(after.list) >= Len(before.list)
              /\ SubSeq(after.list, 1, Len(before.list)) = before.list
              /\ (formObj.cls.async[n] = "none"
                    /\ formObj.cls.inline[n] = "none") => after = before

\* the caller passed {'field1': [v]} to the validate call of a form with
\* async_validate_field1: its list now holds record_status too
C40_HookInCallerList ==
    /\ formObj.phase = "returned"
    /\ formObj.extra["field1"] = "check"
    /\ formObj.cls.async["field1"] = "check"
    /\ formObj.cls.inline["field1"] = "none"
    /\ formObj.extra_validators["field1"].list = <<"check", "record_status">>

\* the caller's mapping has no key for field2, which has an async
\* validator: validate added the key to its copy alone
C40_KeyOnlyInCopy ==
    /\ formObj.phase = "returned"
    /\ formObj.cls.async["field2"] = "check"
    /\ formObj.extra["field1"] = "check"
    /\ formObj.extra_validators["field2"] = [has |-> FALSE, list |-> <<>>]

====
